---- MODULE Spec2Model ----
(***************************************************************************)
(* Disk-persistent key-value store (Assignment3/parta): the per-shard      *)
(* append-only record file (BinControl), its LRU cache (LRUCacheSegment),  *)
(* the sharded map (PersistentHashMap) and its garbage-collector thread.   *)
(*                                                                         *)
(* A shard file is modelled byte by byte: a sequence of numbers 0..255.    *)
(* File offsets are 0-based as in the code; sequence indices are 1-based.  *)
(***************************************************************************)
EXTENDS Integers, Sequences, FiniteSets, TLC

\* ------------------------------------------------------------------ bounds
MaxRecs == 3          \* an insert starts only while the files hold fewer entries
MaxLruOps == 4        \* calls made on the cache that is exercised alone
MaxTail == 9          \* bytes of arbitrary content at the end of a file to recover
MaxFrames == 3        \* inputs a client of the server sends
MaxStalls == 1        \* sends of which the socket of the client takes a part only
ConcRecs == 2         \* as MaxRecs, for the inserts beside concurrent calls or a stop of the process
GcRecs == 2           \* as MaxRecs, for the inserts beside the collector thread as it sleeps and stops

\* (num_bins, cache capacity) of the stores that are constructed
Configs == { << 1, 2 >>, << 2, 1 >> }

\* keys and values are byte strings
Keys == { <<1>>, <<2>>, <<1, 2>> }
Values == { <<>>, <<7>> }

\* std::nullopt, and the two results of erase, as values no byte string equals
nullopt == << -1 >>
TrueV == << -2 >>
FalseV == << -3 >>
\* the result of a call that returns void
VoidV == << -4 >>

VARIABLES
    num_bins,       \* PersistentHashMap::num_bins
    disk,           \* disk[i]: the bytes of <directory>/<i>.bkt
    cache,          \* cache[i]: BinControl::cache of bin i
    mutex,          \* mutex[i]: who holds BinControl::mutex of bin i exclusively
    stop_gc,        \* PersistentHashMap::stop_gc
    gc,             \* the garbage-collector thread: its position and locals
    client,         \* the calling thread: its position and arguments
    store,          \* "up" between construction and destruction, else "down"
    kv,             \* history: the plain key-to-value map the calls describe
    evicted,        \* history: keys dropped from a cache by eviction
    last,           \* history: the call that returned last, and its result
    recency,        \* history: the time of each key's last access to a cache
    dir,            \* what <directory> holds beside the files of the bins
    readers,        \* readers[r]: a thread inside BinControl::get
    session,        \* Session: the fields of the RESP parser
    buffer_,        \* Session::buffer_: bytes received and not yet read
    socket_,        \* Session::socket_: the replies on their way to the client
    threads,        \* main: the event-loop threads inside server.run()
    faulty,         \* the bins whose file cannot be opened
    wire            \* history: what the client sent and what was parsed of it

\* the parts outside the store and its one calling thread
front == << dir, readers, session, buffer_, socket_, threads, faulty, wire >>

vars == << num_bins, disk, cache, mutex, stop_gc, gc, client, store, kv, evicted,
           last, recency, front >>

\* Session as constructed, and as left by Session::reset_state
InitialSession ==
    [current_command_ |-> << >>, expected_parts_ |-> -1, reading_bulk_string_ |-> FALSE,
     bulk_string_length_ |-> 0, bulk_string_ |-> << >>]

\* nothing written: the bytes the socket has taken and, for each, the number
\* of the reply it is sent for; the writes under way; the number of replies
\* handed to asio::async_write and their bytes, in that order; the number
\* of sends the socket took a part of
NoSocket ==
    [sent |-> << >>, order |-> << >>, ops |-> << >>, writes |-> 0, replies |-> << >>,
     stalls |-> 0, closed |-> FALSE, errors |-> 0]

\* nothing received: the number of inputs, the last of them, the array header
\* of the command being received (none: the empty sequence) and the bulk
\* strings completed since
NoWire == [count |-> 0, input |-> [parts |-> << >>, bytes |-> << >>], header |-> << >>,
           bulks |-> 0]

\* no server beside the store
NoServer ==
    /\ session = InitialSession
    /\ buffer_ = << >>
    /\ socket_ = NoSocket
    /\ threads = "none"
    /\ faulty = {}
    /\ wire = NoWire

\* a store used through its own interface: an empty directory at the start,
\* no concurrent readers, no server
StoreAlone ==
    /\ dir = {}
    /\ readers = << >>
    /\ NoServer

\* ------------------------------------------------------------ record format
\* sizeof(int) + sizeof(int) + sizeof(bool)
HeaderSize == 9

\* the four bytes of an int, host (little-endian) byte order
IntBytes(n) ==
    << n % 256, (n \div 256) % 256, (n \div 65536) % 256, (n \div 16777216) % 256 >>

\* file.read(reinterpret_cast<char*>(&x), sizeof(int)) at offset pos
ReadInt(f, pos) ==
    LET b4 == f[pos + 4]
        hi == IF b4 >= 128 THEN b4 - 256 ELSE b4
    IN  f[pos + 1] + 256 * f[pos + 2] + 65536 * f[pos + 3] + 16777216 * hi

\* n bytes of f from offset pos
Bytes(f, pos, n) == SubSeq(f, pos + 1, pos + n)

\* the bytes insert appends and compressFile rewrites for one entry
Record(key, value, deleted) ==
    IntBytes(Len(key)) \o IntBytes(Len(value)) \o << deleted >> \o key \o value

\* The entries of a file from offset pos, as a reader that starts at offset 0
\* and follows the lengths meets them: [key, value, deleted, at] with `at` the
\* offset of the entry.  It ends at the first entry that is not complete.
RECURSIVE Entries(_, _)
Entries(f, pos) ==
    IF pos + HeaderSize > Len(f) THEN << >>
    ELSE LET key_length == ReadInt(f, pos)
             value_length == ReadInt(f, pos + 4)
             size == HeaderSize + key_length + value_length
         IN  IF key_length < 0 \/ value_length < 0 \/ pos + size > Len(f) THEN << >>
             ELSE << [key |-> Bytes(f, pos + HeaderSize, key_length),
                      value |-> Bytes(f, pos + HeaderSize + key_length, value_length),
                      deleted |-> f[pos + 9],
                      at |-> pos] >> \o Entries(f, pos + size)

\* --------------------------------------------------------------- LRU cache
\* std::list::remove(element)
RECURSIVE ListRemove(_, _)
ListRemove(list, element) ==
    IF list = << >> THEN << >>
    ELSE IF Head(list) = element THEN ListRemove(Tail(list), element)
    ELSE << Head(list) >> \o ListRemove(Tail(list), element)

\* lruMap[key] = element
MapSet(map, key, element) ==
    [k \in DOMAIN map \cup {key} |-> IF k = key THEN element ELSE map[k]]

\* lruMap.erase(key)
MapErase(map, key) == [k \in DOMAIN map \ {key} |-> map[k]]

\* LRUCacheSegment::LRUCacheSegment(capacity)
LRU_new(capacity) ==
    [lruList |-> << >>, lruMap |-> << >>, capacity |-> capacity]

\* LRU_put that takes the evicted element from the list but not from the map
LRU_put_NoMapErase(c, key, value) ==
    IF key \in DOMAIN c.lruMap
    THEN LET element == c.lruMap[key]
             updated == [element EXCEPT !.value = value]
         IN  [c EXCEPT !.lruMap = [c.lruMap EXCEPT ![key] = updated],
                       !.lruList = << updated >> \o ListRemove(c.lruList, element)]
    ELSE LET element == [key |-> key, value |-> value]
             list1 == << element >> \o c.lruList
             map1 == MapSet(c.lruMap, key, element)
         IN  IF Len(list1) > c.capacity
             THEN [c EXCEPT !.lruList = SubSeq(list1, 1, Len(list1) - 1), !.lruMap = map1]
             ELSE [c EXCEPT !.lruList = list1, !.lruMap = map1]

\* LRU_put that leaves the value of a key that is present as it was
LRU_put_KeepOld(c, key, value) ==
    IF key \in DOMAIN c.lruMap
    THEN LET element == c.lruMap[key]
         IN  [c EXCEPT !.lruList = << element >> \o ListRemove(c.lruList, element)]
    ELSE LET element == [key |-> key, value |-> value]
             list1 == << element >> \o c.lruList
             map1 == MapSet(c.lruMap, key, element)
         IN  IF Len(list1) > c.capacity
             THEN [c EXCEPT !.lruList = SubSeq(list1, 1, Len(list1) - 1),
                            !.lruMap = MapErase(map1, list1[Len(list1)].key)]
             ELSE [c EXCEPT !.lruList = list1, !.lruMap = map1]

\* LRU_put that evicts the element at the front, the one just inserted
LRU_put_EvictFront(c, key, value) ==
    IF key \in DOMAIN c.lruMap
    THEN LET element == c.lruMap[key]
             updated == [element EXCEPT !.value = value]
         IN  [c EXCEPT !.lruMap = [c.lruMap EXCEPT ![key] = updated],
                       !.lruList = << updated >> \o ListRemove(c.lruList, element)]
    ELSE LET element == [key |-> key, value |-> value]
             list1 == << element >> \o c.lruList
             map1 == MapSet(c.lruMap, key, element)
         IN  IF Len(list1) > c.capacity
             THEN [c EXCEPT !.lruList = Tail(list1),
                            !.lruMap = MapErase(map1, list1[1].key)]
             ELSE [c EXCEPT !.lruList = list1, !.lruMap = map1]

\* LRUCacheSegment::put.  The list and the map hold pointers to one shared
\* element; the element a map entry points to is the list entry equal to it.
LRU_put(c, key, value) ==
    IF key \in DOMAIN c.lruMap
    THEN LET element == c.lruMap[key]
             updated == [element EXCEPT !.value = value]
         IN  [c EXCEPT !.lruMap = [c.lruMap EXCEPT ![key] = updated],
                       !.lruList = << updated >> \o ListRemove(c.lruList, element)]
    ELSE LET element == [key |-> key, value |-> value]
             list1 == << element >> \o c.lruList
             map1 == MapSet(c.lruMap, key, element)
         IN  IF Len(list1) > c.capacity
             THEN [c EXCEPT !.lruList = SubSeq(list1, 1, Len(list1) - 1),
                            !.lruMap = MapErase(map1, list1[Len(list1)].key)]
             ELSE [c EXCEPT !.lruList = list1, !.lruMap = map1]

\* LRU_get that does not move the element to the front
LRU_get_NoPromote(c, key) == c

\* LRUCacheSegment::get: the cache after the call
LRU_get(c, key) ==
    IF key \in DOMAIN c.lruMap
    THEN LET element == c.lruMap[key]
         IN  [c EXCEPT !.lruList = << element >> \o ListRemove(c.lruList, element)]
    ELSE c

\* LRUCacheSegment::get: the value returned
LRU_get_ret(c, key) ==
    IF key \in DOMAIN c.lruMap THEN c.lruMap[key].value ELSE nullopt

\* LRUCacheSegment::remove
LRU_remove(c, key) ==
    IF key \in DOMAIN c.lruMap
    THEN [c EXCEPT !.lruList = ListRemove(c.lruList, c.lruMap[key]),
                   !.lruMap = MapErase(c.lruMap, key)]
    ELSE c

\* ------------------------------------------------------- BinControl scans
\* InsertScan without the write of the deleted byte: the old entry stays live
RECURSIVE InsertScan_NoMark(_, _, _)
InsertScan_NoMark(f, key, pos) == f

\* The scan loop of BinControl::insert from offset pos: the file with the
\* first live entry of the key marked deleted.  After the mark the stream is
\* moved to the end of the file, which ends the loop.
RECURSIVE InsertScan(_, _, _)
InsertScan(f, key, pos) ==
    IF pos >= Len(f) THEN f
    ELSE IF pos + HeaderSize > Len(f) THEN f
    ELSE LET key_length == ReadInt(f, pos)
             value_length == ReadInt(f, pos + 4)
             deleted == f[pos + 9]
         IN  IF deleted # 0 \/ key_length # Len(key)
             THEN InsertScan(f, key, pos + HeaderSize + key_length + value_length)
             ELSE IF pos + HeaderSize + key_length > Len(f) THEN f
             ELSE IF Bytes(f, pos + HeaderSize, key_length) = key
             THEN [f EXCEPT ![pos + 9] = 1]
             ELSE InsertScan(f, key, pos + HeaderSize + key_length + value_length)

\* GetScan without the test of the deleted byte
RECURSIVE GetScan_IgnoreDeleted(_, _, _)
GetScan_IgnoreDeleted(f, key, pos) ==
    IF pos + HeaderSize > Len(f) THEN nullopt
    ELSE LET key_length == ReadInt(f, pos)
             value_length == ReadInt(f, pos + 4)
         IN  IF key_length # Len(key)
             THEN GetScan_IgnoreDeleted(f, key, pos + HeaderSize + key_length + value_length)
             ELSE IF Bytes(f, pos + HeaderSize, key_length) = key
             THEN Bytes(f, pos + HeaderSize + key_length, value_length)
             ELSE GetScan_IgnoreDeleted(f, key, pos + HeaderSize + key_length + value_length)

\* The scan loop of BinControl::get from offset pos: the value of the first
\* live entry of the key, or nullopt at the end of the file.
RECURSIVE GetScan(_, _, _)
GetScan(f, key, pos) ==
    IF pos + HeaderSize > Len(f) THEN nullopt
    ELSE LET key_length == ReadInt(f, pos)
             value_length == ReadInt(f, pos + 4)
             deleted == f[pos + 9]
         IN  IF deleted # 0 \/ key_length # Len(key)
             THEN GetScan(f, key, pos + HeaderSize + key_length + value_length)
             ELSE IF Bytes(f, pos + HeaderSize, key_length) = key
             THEN Bytes(f, pos + HeaderSize + key_length, value_length)
             ELSE GetScan(f, key, pos + HeaderSize + key_length + value_length)

\* EraseScan without the test of the deleted byte
RECURSIVE EraseScan_IgnoreDeleted(_, _, _)
EraseScan_IgnoreDeleted(f, key, pos) ==
    IF pos + HeaderSize > Len(f) THEN -1
    ELSE LET key_length == ReadInt(f, pos)
             value_length == ReadInt(f, pos + 4)
         IN  IF key_length # Len(key)
             THEN EraseScan_IgnoreDeleted(f, key, pos + HeaderSize + key_length + value_length)
             ELSE IF Bytes(f, pos + HeaderSize, key_length) = key
             THEN pos
             ELSE EraseScan_IgnoreDeleted(f, key, pos + HeaderSize + key_length + value_length)

\* The scan loop of BinControl::erase from offset pos: entryStart of the
\* first live entry of the key, or -1 at the end of the file.
RECURSIVE EraseScan(_, _, _)
EraseScan(f, key, pos) ==
    IF pos + HeaderSize > Len(f) THEN -1
    ELSE LET key_length == ReadInt(f, pos)
             value_length == ReadInt(f, pos + 4)
             deleted == f[pos + 9]
         IN  IF deleted # 0 \/ key_length # Len(key)
             THEN EraseScan(f, key, pos + HeaderSize + key_length + value_length)
             ELSE IF Bytes(f, pos + HeaderSize, key_length) = key
             THEN pos
             ELSE EraseScan(f, key, pos + HeaderSize + key_length + value_length)

\* BinCheckScan with >= for > in the test that the entry fits in the file
RECURSIVE BinCheckScan_OffByOne(_, _)
BinCheckScan_OffByOne(f, pos) ==
    IF pos + HeaderSize > Len(f) THEN pos
    ELSE LET key_length == ReadInt(f, pos)
             value_length == ReadInt(f, pos + 4)
         IN  IF key_length < 0 \/ value_length < 0 THEN pos
             ELSE IF pos + HeaderSize + key_length + value_length >= Len(f) THEN pos
             ELSE BinCheckScan_OffByOne(f, pos + HeaderSize + key_length + value_length)

\* The scan loop of BinControl::binCheck from offset pos: read_pos, the
\* entryStart of the first entry that is cut short, has a negative length or
\* does not fit in the file (the end of the file when there is none).
RECURSIVE BinCheckScan(_, _)
BinCheckScan(f, pos) ==
    IF pos + HeaderSize > Len(f) THEN pos
    ELSE LET key_length == ReadInt(f, pos)
             value_length == ReadInt(f, pos + 4)
         IN  IF key_length < 0 \/ value_length < 0 THEN pos
             ELSE IF pos + HeaderSize + key_length + value_length > Len(f) THEN pos
             ELSE BinCheckScan(f, pos + HeaderSize + key_length + value_length)

\* binCheck without the resize of the file
binCheck_NoResize(f) == f

\* BinControl::binCheck: the file after std::filesystem::resize_file
binCheck(f) == SubSeq(f, 1, BinCheckScan(f, 0))

\* std::hash<std::string>: an unspecified but fixed function of the key
RECURSIVE StdHash(_)
StdHash(key) == IF key = << >> THEN 0 ELSE 1 + Head(key) + StdHash(Tail(key))

\* a hash that picks the bin by the length of the first file, not by the key
hash_ByLoad(key) == Len(disk[0]) % num_bins

\* PersistentHashMap::hash
hash(key) == StdHash(key) % num_bins

Bins == 0 .. (num_bins - 1)

\* file.seekp(pos); file.write(bytes): the bytes of f from offset pos replaced
WriteAt(f, pos, bytes) ==
    [i \in 1 .. (IF pos + Len(bytes) > Len(f) THEN pos + Len(bytes) ELSE Len(f)) |->
        IF i > pos /\ i <= pos + Len(bytes) THEN bytes[i - pos] ELSE f[i]]

\* ------------------------------------------- BinControl::compressFile
\* CompressTurn that skips an entry marked deleted only while nothing was
\* skipped before it, and writes back the others as they are
CompressTurn_SkipFirst(st) ==
    LET f == st.f
        key_length == ReadInt(f, st.read_pos)
        value_length == ReadInt(f, st.read_pos + 4)
        deleted == f[st.read_pos + HeaderSize]
        size == HeaderSize + key_length + value_length
    IN  IF st.read_pos + HeaderSize > Len(f) THEN [st EXCEPT !.eof = TRUE]
        ELSE IF deleted # 0 /\ st.write_pos = st.read_pos
        THEN [st EXCEPT !.read_pos = st.read_pos + size]
        ELSE [st EXCEPT !.f = WriteAt(f, st.write_pos, Bytes(f, st.read_pos, size)),
                        !.read_pos = st.read_pos + size,
                        !.write_pos = st.write_pos + size]

\* CompressTurn that writes back the entries marked deleted too
CompressTurn_KeepDeleted(st) ==
    LET f == st.f
        key_length == ReadInt(f, st.read_pos)
        value_length == ReadInt(f, st.read_pos + 4)
        size == HeaderSize + key_length + value_length
    IN  IF st.read_pos + HeaderSize > Len(f) THEN [st EXCEPT !.eof = TRUE]
        ELSE [st EXCEPT !.f = WriteAt(f, st.write_pos, Bytes(f, st.read_pos, size)),
                        !.read_pos = st.read_pos + size,
                        !.write_pos = st.write_pos + size]

\* CompressTurn that skips the live entries of an empty value as well
CompressTurn_SkipEmptyValue(st) ==
    LET f == st.f
        key_length == ReadInt(f, st.read_pos)
        value_length == ReadInt(f, st.read_pos + 4)
        deleted == f[st.read_pos + HeaderSize]
        size == HeaderSize + key_length + value_length
    IN  IF st.read_pos + HeaderSize > Len(f) THEN [st EXCEPT !.eof = TRUE]
        ELSE IF deleted # 0 \/ value_length = 0 THEN [st EXCEPT !.read_pos = st.read_pos + size]
        ELSE [st EXCEPT !.f = WriteAt(f, st.write_pos, Bytes(f, st.read_pos, size)),
                        !.read_pos = st.read_pos + size,
                        !.write_pos = st.write_pos + size]

\* CompressTurn that takes the read position for the next write position
CompressTurn_WriteAtRead(st) ==
    LET f == st.f
        key_length == ReadInt(f, st.read_pos)
        value_length == ReadInt(f, st.read_pos + 4)
        deleted == f[st.read_pos + HeaderSize]
        size == HeaderSize + key_length + value_length
    IN  IF st.read_pos + HeaderSize > Len(f) THEN [st EXCEPT !.eof = TRUE]
        ELSE IF deleted # 0 THEN [st EXCEPT !.read_pos = st.read_pos + size]
        ELSE [st EXCEPT !.f = WriteAt(f, st.write_pos, Bytes(f, st.read_pos, size)),
                        !.read_pos = st.read_pos + size,
                        !.write_pos = st.read_pos + size]

\* One turn of the loop of compressFile on st = [f, read_pos, write_pos, eof]:
\* the entry at read_pos is skipped when it is marked deleted and is written
\* back at write_pos otherwise; eof when no header is left at read_pos.
CompressTurn(st) ==
    LET f == st.f
        key_length == ReadInt(f, st.read_pos)
        value_length == ReadInt(f, st.read_pos + 4)
        deleted == f[st.read_pos + HeaderSize]
        key == Bytes(f, st.read_pos + HeaderSize, key_length)
        value == Bytes(f, st.read_pos + HeaderSize + key_length, value_length)
        size == HeaderSize + key_length + value_length
    IN  IF st.read_pos + HeaderSize > Len(f) THEN [st EXCEPT !.eof = TRUE]
        ELSE IF deleted # 0 THEN [st EXCEPT !.read_pos = st.read_pos + size]
        ELSE [st EXCEPT !.f = WriteAt(f, st.write_pos, Record(key, value, 0)),
                        !.read_pos = st.read_pos + size,
                        !.write_pos = st.write_pos + size]

RECURSIVE CompressLoop(_)
CompressLoop(st) == IF st.eof THEN st ELSE CompressLoop(CompressTurn(st))

\* CompressTruncate with read_pos for write_pos
CompressTruncate_ReadPos(st) == SubSeq(st.f, 1, st.read_pos)

\* std::filesystem::resize_file(bin_path, write_pos)
CompressTruncate(st) == SubSeq(st.f, 1, st.write_pos)

\* BinControl::compressFile as a whole: the file it leaves
compressFile(f) ==
    CompressTruncate(CompressLoop([f |-> f, read_pos |-> 0, write_pos |-> 0, eof |-> FALSE]))

\* --------------------------------------------------------- history helpers
\* the keys a cache operation dropped from the cache
Dropped(before, after) == DOMAIN before.lruMap \ DOMAIN after.lruMap

\* what BinControl::get returns for the key in the current state
GetValue(key) ==
    LET b == hash(key)
    IN  IF key \in DOMAIN cache[b].lruMap
        THEN LRU_get_ret(cache[b], key)
        ELSE GetScan(disk[b], key, 0)

RECURSIVE SumLen(_, _)
SumLen(files, b) == IF b < 0 THEN 0 ELSE Len(Entries(files[b], 0)) + SumLen(files, b - 1)

\* the number of entries in all files
TotalRecs == SumLen(disk, num_bins - 1)

\* ---------------------------------------------------------------- Init
IdleClient == [pc |-> "idle", key |-> << >>, value |-> << >>]

GcStart == [pc |-> "call", bin |-> 0, read_pos |-> 0, write_pos |-> 0]

NoCall == [op |-> "none", key |-> << >>, bin |-> 0, ret |-> VoidV, was |-> VoidV]

NoAccess == [clock |-> 0, at |-> [k \in Keys |-> 0]]

\* PersistentHashMap::PersistentHashMap in CREATE mode: num_bins empty files,
\* one BinControl with an empty cache per bin, the collector thread started
Init ==
    /\ \E cfg \in Configs :
          /\ num_bins = cfg[1]
          /\ cache = [b \in 0 .. (cfg[1] - 1) |-> LRU_new(cfg[2])]
    /\ disk = [b \in Bins |-> << >>]
    /\ mutex = [b \in Bins |-> "free"]
    /\ stop_gc = FALSE
    /\ gc = GcStart
    /\ client = IdleClient
    /\ store = "up"
    /\ kv = [k \in Keys |-> nullopt]
    /\ evicted = {}
    /\ last = NoCall
    /\ recency = NoAccess
    /\ StoreAlone

\* reader r holds the mutex of bin b shared: it is inside BinControl::get
ReaderHolds(r, b) == readers[r].pc \in { "cache", "scan" } /\ hash(readers[r].key) = b

\* a unique_lock that does not wait for the shared holders
NoReaderIn_Ignored(b) == TRUE

\* std::unique_lock lock(mutex) waits until no get holds the mutex shared
NoReaderIn(b) == \A r \in DOMAIN readers : ~ReaderHolds(r, b)

\* a shared_lock that does not wait for the exclusive holder
NoWriterIn_Ignored(b) == TRUE

\* std::shared_lock lock(mutex) waits until nobody holds the mutex exclusively
NoWriterIn(b) == mutex[b] = "free"

\* history: the readers that are inside a get of the key note the value a
\* call that starts now will leave
Noted(key, value) ==
    /\ readers' = [r \in DOMAIN readers |->
                     IF readers[r].key = key /\ readers[r].pc \in { "wait", "cache", "scan" }
                     THEN [readers[r] EXCEPT !.seen = @ \cup { value }]
                     ELSE readers[r]]
    /\ UNCHANGED << dir, session, buffer_, socket_, threads, faulty, wire >>

\* a call on bin b can take the lock: the store is up, the caller is in no
\* other call and nobody holds the bin, exclusively or shared
CanCall(b) ==
    store = "up" /\ client.pc = "idle" /\ mutex[b] = "free" /\ NoReaderIn(b)

\* ------------------------------------------------------ BinControl::insert
\* what the whole call does to the cache and the file of the key's bin
InsertStore(key, value) ==
    LET b == hash(key)
        c == LRU_put(cache[b], key, value)
    IN  /\ cache' = [cache EXCEPT ![b] = c]
        /\ disk' = [disk EXCEPT ![b] = InsertScan(disk[b], key, 0) \o Record(key, value, 0)]
        /\ evicted' = (evicted \cup Dropped(cache[b], c)) \ {key}
        /\ kv' = [kv EXCEPT ![key] = value]

\* the whole call
InsertDo(key, value) ==
    LET b == hash(key)
    IN  /\ CanCall(b)
        /\ TotalRecs < MaxRecs
        /\ InsertStore(key, value)
        /\ UNCHANGED << front, recency, num_bins, mutex, stop_gc, gc, client, store >>

Insert(key, value) ==
    /\ InsertDo(key, value)
    /\ last' = [NoCall EXCEPT !.op = "insert", !.key = key, !.bin = hash(key)]

\* --------------------------------------------------------- BinControl::get
\* what the whole call does to the cache of the key's bin
GetStore(key) ==
    LET b == hash(key)
        hit == LRU_get_ret(cache[b], key)
        found == GetScan(disk[b], key, 0)
        c == IF hit # nullopt THEN LRU_get(cache[b], key)
             ELSE IF found # nullopt THEN LRU_put(cache[b], key, found)
             ELSE cache[b]
    IN  /\ cache' = [cache EXCEPT ![b] = c]
        /\ evicted' = (evicted \cup Dropped(cache[b], c)) \ DOMAIN c.lruMap

GetDo(key) ==
    LET b == hash(key)
    IN  /\ CanCall(b)
        /\ GetStore(key)
        /\ UNCHANGED << front, recency, num_bins, disk, mutex, stop_gc, gc, client, store, kv >>

\* the value BinControl::get returns
GetRet(key) ==
    LET hit == LRU_get_ret(cache[hash(key)], key)
    IN  IF hit # nullopt THEN hit ELSE GetScan(disk[hash(key)], key, 0)

\* last.was: whether the key had been evicted from the cache
Get(key) ==
    /\ GetDo(key)
    /\ last' = [op |-> "get", key |-> key, bin |-> hash(key), ret |-> GetRet(key),
                was |-> IF key \in evicted THEN TrueV ELSE FalseV]

\* ------------------------------------------------------- BinControl::erase
\* the value BinControl::erase returns
EraseRet(key) ==
    IF EraseScan(disk[hash(key)], key, 0) >= 0 THEN TrueV ELSE FalseV

\* an erase that empties the cache of the bin
EraseStore_ClearCache(key) ==
    LET b == hash(key)
        entryStart == EraseScan(disk[b], key, 0)
    IN  /\ cache' = [cache EXCEPT ![b] = LRU_new(cache[b].capacity)]
        /\ disk' = [disk EXCEPT ![b] =
                      IF entryStart >= 0 THEN WriteAt(disk[b], entryStart + 8, << 1 >>)
                      ELSE disk[b]]
        /\ evicted' = evicted \ {key}
        /\ kv' = [kv EXCEPT ![key] = nullopt]

\* what the whole call does to the cache and the file of the key's bin
EraseStore(key) ==
    LET b == hash(key)
        entryStart == EraseScan(disk[b], key, 0)
    IN  /\ cache' = [cache EXCEPT ![b] = LRU_remove(cache[b], key)]
        /\ disk' = [disk EXCEPT ![b] =
                      IF entryStart >= 0 THEN WriteAt(disk[b], entryStart + 8, << 1 >>)
                      ELSE disk[b]]
        /\ evicted' = evicted \ {key}
        /\ kv' = [kv EXCEPT ![key] = nullopt]

EraseDo(key) ==
    LET b == hash(key)
    IN  /\ CanCall(b)
        /\ EraseStore(key)
        /\ UNCHANGED << front, recency, num_bins, mutex, stop_gc, gc, client, store >>

\* last.was: the value of the key in the plain map before the call
Erase(key) ==
    /\ EraseDo(key)
    /\ last' = [op |-> "erase", key |-> key, bin |-> hash(key), ret |-> EraseRet(key),
                was |-> kv[key]]

\* ---------------------------------- PersistentHashMap::runGarbageCollector
\* the next compressFile call of the pass, as a whole
\* last.was: the file before the call, last.ret: the file after it
Compress ==
    LET b == gc.bin
    IN  /\ store = "up"
        /\ gc.pc = "call"
        /\ mutex[b] = "free"
        /\ disk' = [disk EXCEPT ![b] = compressFile(disk[b])]
        /\ gc' = [gc EXCEPT !.bin = (b + 1) % num_bins]
        /\ last' = [op |-> "compress", key |-> << >>, bin |-> b,
                    ret |-> compressFile(disk[b]), was |-> disk[b]]
        /\ UNCHANGED << front, recency, num_bins, cache, mutex, stop_gc, client, store, kv, evicted >>

\* ------------------------------- PersistentHashMap::~PersistentHashMap
\* stop_gc = true; gc_thread.join(); the bin controls are released.  The
\* collector ends at its next test of stop_gc: at once when it is at the top
\* of its loop (finish = FALSE), and after the rest of its pass otherwise.
\* last.was: what get returns for each key before the destruction
Destroy(finish) ==
    /\ store = "up"
    /\ client.pc = "idle"
    /\ gc.pc = "call"
    /\ finish \/ gc.bin = 0
    /\ stop_gc' = TRUE
    /\ disk' = [b \in Bins |->
                  IF finish /\ b >= gc.bin THEN compressFile(disk[b]) ELSE disk[b]]
    /\ gc' = [GcStart EXCEPT !.pc = "exit"]
    /\ cache' = [b \in Bins |-> LRU_new(cache[b].capacity)]
    /\ evicted' = {}
    /\ store' = "down"
    /\ last' = [NoCall EXCEPT !.op = "destroy", !.was = [k \in Keys |-> GetValue(k)]]
    /\ UNCHANGED << front, recency, num_bins, mutex, client, kv >>

\* PersistentHashMap::PersistentHashMap in OPEN mode on the same directory
\* with the same num_bins: every file exists, so binCheck runs on each; the
\* collector thread is started.
\* last.ret: the files before recovery, last.was: as left by Destroy
Open ==
    /\ store = "down"
    /\ disk' = [b \in Bins |-> binCheck(disk[b])]
    /\ stop_gc' = FALSE
    /\ gc' = GcStart
    /\ store' = "up"
    /\ last' = [NoCall EXCEPT !.op = "open", !.ret = disk, !.was = last.was]
    /\ UNCHANGED << front, recency, num_bins, cache, mutex, client, kv, evicted >>

Next ==
    \/ \E key \in Keys, value \in Values : Insert(key, value)
    \/ \E key \in Keys : Get(key)
    \/ \E key \in Keys : Erase(key)
    \/ Compress
    \/ \E finish \in BOOLEAN : Destroy(finish)
    \/ Open

Spec == Init /\ [][Next]_vars

\* ------------------------------------------------- the calls step by step
\* BinControl::insert: unique_lock, cache.put
InsertCall(key, value) ==
    LET b == hash(key)
        c == LRU_put(cache[b], key, value)
    IN  /\ CanCall(b)
        /\ TotalRecs < MaxRecs
        /\ mutex' = [mutex EXCEPT ![b] = "client"]
        /\ cache' = [cache EXCEPT ![b] = c]
        /\ evicted' = (evicted \cup Dropped(cache[b], c)) \ {key}
        /\ client' = [pc |-> "insert_scan", key |-> key, value |-> value]
        /\ Noted(key, value)
        /\ UNCHANGED << recency, num_bins, disk, stop_gc, gc, store, kv, last >>

\* BinControl::insert: the scan loop marks the live entry of the key deleted
InsertMark ==
    LET b == hash(client.key)
    IN  /\ client.pc = "insert_scan"
        /\ disk' = [disk EXCEPT ![b] = InsertScan(disk[b], client.key, 0)]
        /\ client' = [client EXCEPT !.pc = "insert_append"]
        /\ UNCHANGED << front, recency, num_bins, cache, mutex, stop_gc, gc, store, kv, evicted, last >>

\* BinControl::insert: the new entry is written at the end of the file, the
\* file is closed and the lock released
InsertAppend ==
    LET b == hash(client.key)
    IN  /\ client.pc = "insert_append"
        /\ disk' = [disk EXCEPT ![b] = disk[b] \o Record(client.key, client.value, 0)]
        /\ mutex' = [mutex EXCEPT ![b] = "free"]
        /\ kv' = [kv EXCEPT ![client.key] = client.value]
        /\ client' = IdleClient
        /\ UNCHANGED << front, recency, num_bins, cache, stop_gc, gc, store, evicted, last >>

GetStep(key) == GetDo(key) /\ UNCHANGED last

EraseStep(key) == EraseDo(key) /\ UNCHANGED last

\* BinControl::compressFile: unique_lock, read_pos = write_pos = 0
CompressLock ==
    /\ store = "up"
    /\ gc.pc = "call"
    /\ mutex[gc.bin] = "free"
    /\ NoReaderIn(gc.bin)
    /\ mutex' = [mutex EXCEPT ![gc.bin] = "gc"]
    /\ gc' = [gc EXCEPT !.pc = "loop", !.read_pos = 0, !.write_pos = 0]
    /\ UNCHANGED << front, recency, num_bins, disk, cache, stop_gc, client, store, kv, evicted, last >>

\* BinControl::compressFile: one turn of the loop
CompressIter ==
    LET st == CompressTurn([f |-> disk[gc.bin], read_pos |-> gc.read_pos,
                            write_pos |-> gc.write_pos, eof |-> FALSE])
    IN  /\ gc.pc = "loop"
        /\ disk' = [disk EXCEPT ![gc.bin] = st.f]
        /\ gc' = [gc EXCEPT !.pc = IF st.eof THEN "resize" ELSE "loop",
                            !.read_pos = st.read_pos, !.write_pos = st.write_pos]
        /\ UNCHANGED << front, recency, num_bins, cache, mutex, stop_gc, client, store, kv, evicted, last >>

\* BinControl::compressFile: the file is closed and resized to write_pos, the
\* lock is released; the pass goes on with the next bin
CompressResize ==
    /\ gc.pc = "resize"
    /\ disk' = [disk EXCEPT ![gc.bin] =
                  CompressTruncate([f |-> disk[gc.bin], read_pos |-> gc.read_pos,
                                    write_pos |-> gc.write_pos, eof |-> TRUE])]
    /\ mutex' = [mutex EXCEPT ![gc.bin] = "free"]
    /\ gc' = [GcStart EXCEPT !.bin = (gc.bin + 1) % num_bins]
    /\ UNCHANGED << front, recency, num_bins, cache, stop_gc, client, store, kv, evicted, last >>

NextSteps ==
    \/ \E key \in Keys, value \in Values : InsertCall(key, value)
    \/ InsertMark
    \/ InsertAppend
    \/ \E key \in Keys : GetStep(key)
    \/ \E key \in Keys : EraseStep(key)
    \/ CompressLock
    \/ CompressIter
    \/ CompressResize

SpecSteps == Init /\ [][NextSteps]_vars

\* ------------------------------------------- the LRU cache exercised alone
\* the capacities of the cache that is exercised alone
LruCapacities == { 0, 1, 2 }

\* one cache, cache[0], and nothing else at work
InitLRU ==
    /\ num_bins = 1
    /\ \E capacity \in LruCapacities : cache = [b \in {0} |-> LRU_new(capacity)]
    /\ disk = [b \in {0} |-> << >>]
    /\ mutex = [b \in {0} |-> "free"]
    /\ stop_gc = FALSE
    /\ gc = GcStart
    /\ client = IdleClient
    /\ store = "up"
    /\ kv = [k \in Keys |-> nullopt]
    /\ evicted = {}
    /\ last = NoCall
    /\ recency = NoAccess
    /\ StoreAlone

\* the clock ticks at every call; at[key] is the time of the key's last access
Tick(key, accessed) ==
    [clock |-> recency.clock + 1,
     at |-> IF accessed THEN [recency.at EXCEPT ![key] = recency.clock + 1] ELSE recency.at]

\* LRUCacheSegment::put called; last.was: the cache before the call
LruPut(key, value) ==
    /\ recency.clock < MaxLruOps
    /\ cache' = [cache EXCEPT ![0] = LRU_put(cache[0], key, value)]
    /\ recency' = Tick(key, TRUE)
    /\ last' = [op |-> "lru_put", key |-> key, bin |-> 0, ret |-> VoidV, was |-> cache[0]]
    /\ UNCHANGED << front, num_bins, disk, mutex, stop_gc, gc, client, store, kv, evicted >>

\* LRUCacheSegment::get called
LruGet(key) ==
    /\ recency.clock < MaxLruOps
    /\ cache' = [cache EXCEPT ![0] = LRU_get(cache[0], key)]
    /\ recency' = Tick(key, LRU_get_ret(cache[0], key) # nullopt)
    /\ last' = [op |-> "lru_get", key |-> key, bin |-> 0,
                ret |-> LRU_get_ret(cache[0], key), was |-> cache[0]]
    /\ UNCHANGED << front, num_bins, disk, mutex, stop_gc, gc, client, store, kv, evicted >>

\* LRUCacheSegment::remove called
LruRemove(key) ==
    /\ recency.clock < MaxLruOps
    /\ cache' = [cache EXCEPT ![0] = LRU_remove(cache[0], key)]
    /\ recency' = Tick(key, FALSE)
    /\ last' = [op |-> "lru_remove", key |-> key, bin |-> 0, ret |-> VoidV, was |-> cache[0]]
    /\ UNCHANGED << front, num_bins, disk, mutex, stop_gc, gc, client, store, kv, evicted >>

NextLRU ==
    \/ \E key \in Keys, value \in Values : LruPut(key, value)
    \/ \E key \in Keys : LruGet(key)
    \/ \E key \in Keys : LruRemove(key)

SpecLRU == InitLRU /\ [][NextLRU]_vars

\* ------------------------------------------------ binCheck exercised alone
\* the bytes arbitrary content is made of: 255 makes a length negative
TailBytes == { 0, 1, 255 }

\* whole entries a file to recover may start with
Prefixes ==
    { << >>,
      Record(<< 1 >>, << 7 >>, 0),
      Record(<< 1 >>, << >>, 1) \o Record(<< 1, 2 >>, << 7 >>, 0) }

\* the files to recover: whole entries followed by arbitrary bytes
FileInputs ==
    { p \o t : p \in Prefixes, t \in UNION { [1 .. n -> TailBytes] : n \in 0 .. MaxTail } }

\* one file, 0.bkt, of arbitrary content and nothing else at work
InitBinCheck ==
    /\ num_bins = 1
    /\ disk \in [{0} -> FileInputs]
    /\ cache = [b \in {0} |-> LRU_new(1)]
    /\ mutex = [b \in {0} |-> "free"]
    /\ stop_gc = FALSE
    /\ gc = GcStart
    /\ client = IdleClient
    /\ store = "down"
    /\ kv = [k \in Keys |-> nullopt]
    /\ evicted = {}
    /\ last = NoCall
    /\ recency = NoAccess
    /\ StoreAlone

\* BinControl::binCheck called on the file; last.was: the file before the call
BinCheckCall ==
    /\ last.op = "none"
    /\ disk' = [disk EXCEPT ![0] = binCheck(disk[0])]
    /\ last' = [op |-> "binCheck", key |-> << >>, bin |-> 0, ret |-> VoidV, was |-> disk[0]]
    /\ UNCHANGED << front, recency, num_bins, cache, mutex, stop_gc, gc, client, store, kv, evicted >>

NextBinCheck == BinCheckCall

SpecBinCheck == InitBinCheck /\ [][NextBinCheck]_vars

\* -------------------------------------------- construction in CREATE mode
\* what a directory can hold beside regular files named <i>.bkt: a regular
\* file, an empty directory, a directory that holds something
DirEntries == { "file", "emptydir", "fulldir" }

\* the bytes of the files <i>.bkt found in the directory
PreviousFiles == { << >>, Record(<< 1 >>, << 7 >>, 0), << 1, 0, 0 >> }

\* the files <i>.bkt found in the directory: none, or those of 1 to 3 bins
PreviousBins == { 0 .. (n - 1) : n \in 0 .. 3 }

\* before PersistentHashMap::PersistentHashMap(directory, num_bins, CREATE)
\* on a directory with previous content
InitCreate ==
    /\ \E cfg \in Configs :
          /\ num_bins = cfg[1]
          /\ cache = [b \in 0 .. (cfg[1] - 1) |-> LRU_new(cfg[2])]
    /\ \E bs \in PreviousBins : disk \in [bs -> PreviousFiles]
    /\ dir \in SUBSET DirEntries
    /\ mutex = [b \in Bins |-> "free"]
    /\ stop_gc = FALSE
    /\ gc = GcStart
    /\ client = IdleClient
    /\ store = "down"
    /\ kv = [k \in Keys |-> nullopt]
    /\ evicted = {}
    /\ last = NoCall
    /\ recency = NoAccess
    /\ readers = << >>
    /\ NoServer

\* The constructor in CREATE mode.  std::filesystem::remove removes a file or
\* an empty directory and throws filesystem_error on a directory that is not
\* empty: the constructor then ends by the exception with the entries that
\* directory_iterator gave before it removed (its order is unspecified), and
\* no store exists.  Otherwise every entry is removed and num_bins empty
\* files are created.
Create ==
    /\ store = "down"
    /\ last.op = "none"
    /\ IF "fulldir" \in dir
       THEN \E gone \in SUBSET (dir \ { "fulldir" }) : \E kept \in SUBSET DOMAIN disk :
               /\ dir' = dir \ gone
               /\ disk' = [b \in kept |-> disk[b]]
               /\ store' = "failed"
               /\ last' = [NoCall EXCEPT !.op = "create", !.ret = FalseV]
       ELSE /\ dir' = {}
            /\ disk' = [b \in Bins |-> << >>]
            /\ store' = "up"
            /\ last' = [NoCall EXCEPT !.op = "create", !.ret = TrueV]
    /\ UNCHANGED << readers, session, buffer_, socket_, threads, faulty, wire, recency,
                    num_bins, cache, mutex, stop_gc, gc, client, kv, evicted >>

NextCreate ==
    \/ Create
    \/ \E key \in Keys : Get(key)
    \/ \E key \in Keys : Erase(key)

SpecCreate == InitCreate /\ [][NextCreate]_vars

\* --------------------------------- gets running beside a writer and the gc
\* the threads that call get
Readers == { 1, 2 }

\* the keys the concurrent calls are about: two keys of one length
ConcKeys == { << 1 >>, << 2 >> }

\* the result of a call that ended by an exception
ErrV == << -5 >>

\* a thread that is in no get.  seen (history): the values the plain map held
\* for the key, or was about to hold, between the call and the return
IdleReader == [pc |-> "idle", key |-> << >>, pos |-> 0, ret |-> VoidV, seen |-> {}]

\* one bin with a cache of one entry: every key meets every other in the file
\* and drives every other from the cache
InitConc ==
    /\ num_bins = 1
    /\ cache = [b \in { 0 } |-> LRU_new(1)]
    /\ disk = [b \in Bins |-> << >>]
    /\ mutex = [b \in Bins |-> "free"]
    /\ stop_gc = FALSE
    /\ gc = GcStart
    /\ client = IdleClient
    /\ store = "up"
    /\ kv = [k \in Keys |-> nullopt]
    /\ evicted = {}
    /\ last = NoCall
    /\ recency = NoAccess
    /\ dir = {}
    /\ readers = [r \in Readers |-> IdleReader]
    /\ NoServer

\* what only the readers change
ReaderFrame ==
    UNCHANGED << dir, session, buffer_, socket_, threads, faulty, wire, recency, num_bins,
                 mutex, stop_gc, gc, client, store, kv, last >>

\* BinControl::get is called: the thread is at std::shared_lock lock(mutex)
ReadCall(r, key) ==
    /\ store = "up"
    /\ readers[r].pc \in { "idle", "done" }
    /\ readers' = [readers EXCEPT ![r] =
          [pc |-> "wait", key |-> key, pos |-> 0, ret |-> VoidV,
           seen |-> { kv[key] } \cup
                    (IF client.pc \in { "insert_scan", "insert_append" } /\ client.key = key
                     THEN { client.value }
                     ELSE IF client.pc = "erase_scan" /\ client.key = key THEN { nullopt }
                     ELSE {})]]
    /\ UNCHANGED << cache, disk, evicted >>
    /\ ReaderFrame

\* BinControl::get: the shared lock is taken
ReadLock(r) ==
    /\ readers[r].pc = "wait"
    /\ NoWriterIn(hash(readers[r].key))
    /\ readers' = [readers EXCEPT ![r].pc = "cache"]
    /\ UNCHANGED << cache, disk, evicted >>
    /\ ReaderFrame

\* BinControl::get: cache.get(key); on a hit the value is returned and the
\* lock released, otherwise the file is opened
ReadCache(r) ==
    LET key == readers[r].key
        b == hash(key)
        hit == LRU_get_ret(cache[b], key)
    IN  /\ readers[r].pc = "cache"
        /\ cache' = [cache EXCEPT ![b] = LRU_get(cache[b], key)]
        /\ readers' = [readers EXCEPT ![r] =
              IF hit # nullopt THEN [@ EXCEPT !.pc = "done", !.ret = hit, !.key = << >>]
              ELSE [@ EXCEPT !.pc = "scan", !.pos = 0]]
        /\ UNCHANGED << disk, evicted >>
        /\ ReaderFrame

\* GetTurn that takes the bytes of the key for the value of the entry found
GetTurn_KeyForValue(f, key, pos) ==
    IF pos + HeaderSize > Len(f) THEN [done |-> TRUE, ret |-> nullopt, pos |-> pos]
    ELSE LET key_length == ReadInt(f, pos)
             value_length == ReadInt(f, pos + 4)
             deleted == f[pos + HeaderSize]
             next == pos + HeaderSize + key_length + value_length
         IN  IF deleted # 0 \/ key_length # Len(key)
             THEN [done |-> FALSE, ret |-> VoidV, pos |-> next]
             ELSE IF pos + HeaderSize + key_length > Len(f)
             THEN [done |-> TRUE, ret |-> ErrV, pos |-> pos]
             ELSE IF Bytes(f, pos + HeaderSize, key_length) # key
             THEN [done |-> FALSE, ret |-> VoidV, pos |-> next]
             ELSE IF value_length < 0 \/ next > Len(f)
             THEN [done |-> TRUE, ret |-> ErrV, pos |-> pos]
             ELSE [done |-> TRUE, pos |-> pos,
                   ret |-> Bytes(f, pos + HeaderSize, key_length)]

\* One turn of the scan loop of BinControl::get at offset pos of the file f:
\* done with the value returned (nullopt at the end of the file, ErrV when a
\* read fails and the call throws), or the offset of the next entry.
GetTurn(f, key, pos) ==
    IF pos + HeaderSize > Len(f) THEN [done |-> TRUE, ret |-> nullopt, pos |-> pos]
    ELSE LET key_length == ReadInt(f, pos)
             value_length == ReadInt(f, pos + 4)
             deleted == f[pos + HeaderSize]
             next == pos + HeaderSize + key_length + value_length
         IN  IF deleted # 0 \/ key_length # Len(key)
             THEN [done |-> FALSE, ret |-> VoidV, pos |-> next]
             ELSE IF pos + HeaderSize + key_length > Len(f)
             THEN [done |-> TRUE, ret |-> ErrV, pos |-> pos]
             ELSE IF Bytes(f, pos + HeaderSize, key_length) # key
             THEN [done |-> FALSE, ret |-> VoidV, pos |-> next]
             ELSE IF value_length < 0 \/ next > Len(f)
             THEN [done |-> TRUE, ret |-> ErrV, pos |-> pos]
             ELSE [done |-> TRUE, pos |-> pos,
                   ret |-> Bytes(f, pos + HeaderSize + key_length, value_length)]

\* BinControl::get: one turn of the scan loop; a value found is put in the
\* cache before the lock is released
ReadEntry(r) ==
    LET key == readers[r].key
        b == hash(key)
        pos == readers[r].pos
        t == IF pos < 0 \/ pos > Len(disk[b])
             THEN [done |-> TRUE, ret |-> nullopt, pos |-> pos]
             ELSE GetTurn(disk[b], key, pos)
        found == t.done /\ t.ret \notin { nullopt, ErrV }
        c == IF found THEN LRU_put(cache[b], key, t.ret) ELSE cache[b]
    IN  /\ readers[r].pc = "scan"
        /\ cache' = [cache EXCEPT ![b] = c]
        /\ readers' = [readers EXCEPT ![r] =
              IF t.done THEN [@ EXCEPT !.pc = "done", !.ret = t.ret, !.pos = 0, !.key = << >>]
              ELSE [@ EXCEPT !.pos = t.pos]]
        /\ UNCHANGED << disk, evicted >>
        /\ ReaderFrame

\* BinControl::erase: unique_lock, cache.remove
EraseCall(key) ==
    LET b == hash(key)
    IN  /\ CanCall(b)
        /\ mutex' = [mutex EXCEPT ![b] = "client"]
        /\ cache' = [cache EXCEPT ![b] = LRU_remove(cache[b], key)]
        /\ evicted' = evicted \ {key}
        /\ client' = [pc |-> "erase_scan", key |-> key, value |-> << >>]
        /\ Noted(key, nullopt)
        /\ UNCHANGED << recency, num_bins, disk, stop_gc, gc, store, kv, last >>

\* BinControl::erase: the scan loop marks the live entry of the key deleted;
\* the file is closed and the lock released
EraseMark ==
    LET b == hash(client.key)
        entryStart == EraseScan(disk[b], client.key, 0)
    IN  /\ client.pc = "erase_scan"
        /\ disk' = [disk EXCEPT ![b] =
                      IF entryStart >= 0 THEN WriteAt(disk[b], entryStart + 8, << 1 >>)
                      ELSE disk[b]]
        /\ mutex' = [mutex EXCEPT ![b] = "free"]
        /\ kv' = [kv EXCEPT ![client.key] = nullopt]
        /\ client' = IdleClient
        /\ UNCHANGED << front, recency, num_bins, cache, stop_gc, gc, store, evicted, last >>

NextConc ==
    \/ \E key \in ConcKeys, value \in Values : TotalRecs < ConcRecs /\ InsertCall(key, value)
    \/ InsertMark
    \/ InsertAppend
    \/ \E key \in ConcKeys : EraseCall(key)
    \/ EraseMark
    \/ CompressLock
    \/ CompressIter
    \/ CompressResize
    \/ \E r \in Readers, key \in ConcKeys : ReadCall(r, key)
    \/ \E r \in Readers : ReadLock(r)
    \/ \E r \in Readers : ReadCache(r)
    \/ \E r \in Readers : ReadEntry(r)

SpecConc == InitConc /\ [][NextConc]_vars

\* ------------------------------------------------ the RESP server (partc)
\* "\r\n"
CRLF == << 13, 10 >>

\* the command names "SET", "GET", "DEL", and "PING", which is none
SET == << 83, 69, 84 >>
GET == << 71, 69, 84 >>
DEL == << 68, 69, 76 >>
PING == << 80, 73, 78, 71 >>

\* "+OK\r\n"
OkReply == << 43, 79, 75, 13, 10 >>
\* "$-1\r\n"
NilReply == << 36, 45, 49, 13, 10 >>
\* ":0\r\n" and ":1\r\n"
ZeroReply == << 58, 48, 13, 10 >>
OneReply == << 58, 49, 13, 10 >>
\* "-ERR empty command\r\n"
ErrEmpty ==
    << 45, 69, 82, 82, 32, 101,
       109, 112, 116, 121, 32, 99, 111, 109, 109, 97, 110, 100, 13, 10 >>
\* "-ERR unknown command or wrong number of arguments\r\n"
ErrUnknown ==
    << 45, 69, 82, 82, 32, 117, 110, 107, 110, 111, 119, 110, 32, 99, 111, 109, 109, 97,
       110, 100, 32, 111, 114, 32, 119, 114, 111, 110, 103, 32, 110, 117, 109, 98, 101,
       114, 32, 111, 102, 32, 97, 114, 103, 117, 109, 101, 110, 116, 115, 13, 10 >>

\* std::to_string of an int, and the stream output of a size
RECURSIVE to_string(_)
to_string(n) ==
    IF n < 0 THEN << 45 >> \o to_string(-n)
    ELSE IF n < 10 THEN << 48 + n >>
    ELSE to_string(n \div 10) \o << 48 + (n % 10) >>

\* std::isspace and std::isdigit in the C locale
IsSpace(c) == c = 32 \/ c \in 9 .. 13
IsDigit(c) == c \in 48 .. 57

RECURSIVE SkipSpace(_)
SkipSpace(s) == IF s # << >> /\ IsSpace(Head(s)) THEN SkipSpace(Tail(s)) ELSE s

\* the value of the digits s starts with, after the digits of value acc
RECURSIVE DigitsValue(_, _)
DigitsValue(s, acc) ==
    IF s # << >> /\ IsDigit(Head(s)) THEN DigitsValue(Tail(s), 10 * acc + Head(s) - 48)
    ELSE acc

\* std::stoi: white space, a sign, digits; what follows the digits is
\* ignored; std::invalid_argument (ok = FALSE) when there is no digit.  The
\* numbers sent here are short, so std::out_of_range does not arise.
stoi(str) ==
    LET s == SkipSpace(str)
        signed == s # << >> /\ Head(s) \in { 43, 45 }
        d == IF signed THEN Tail(s) ELSE s
    IN  IF d = << >> \/ ~IsDigit(Head(d)) THEN [ok |-> FALSE, value |-> 0]
        ELSE [ok |-> TRUE,
              value |-> IF signed /\ Head(s) = 45 THEN 0 - DigitsValue(d, 0)
                        ELSE DigitsValue(d, 0)]

\* Client::format_resp: a command as an array of bulk strings
RECURSIVE BulkStrings(_)
BulkStrings(args) ==
    IF args = << >> THEN << >>
    ELSE << 36 >> \o to_string(Len(Head(args))) \o CRLF \o Head(args) \o CRLF
         \o BulkStrings(Tail(args))

format_resp(args) == << 42 >> \o to_string(Len(args)) \o CRLF \o BulkStrings(args)

\* asio::async_read_until(socket_, buffer_, "\r\n") completes when the buffer
\* holds the delimiter
HasCRLF(s) == \E i \in 1 .. (Len(s) - 1) : s[i] = 13 /\ s[i + 1] = 10

\* the index of the first '\n' of s
FirstLF(s) == CHOOSE i \in 1 .. Len(s) : s[i] = 10 /\ \A j \in 1 .. (i - 1) : s[j] # 10

\* std::getline(input_stream, line): the bytes before the first '\n', which
\* is taken from the buffer with them; then a trailing '\r' is removed
getline(s) ==
    LET n == FirstLF(s)
        raw == SubSeq(s, 1, n - 1)
    IN  [line |-> IF raw # << >> /\ raw[Len(raw)] = 13 THEN SubSeq(raw, 1, Len(raw) - 1)
                  ELSE raw,
         rest |-> SubSeq(s, n + 1, Len(s))]

\* size() == n for a size_t and an int: the int is converted to unsigned, so
\* a negative n equals no size
SizeEquals(size, n) == n >= 0 /\ size = n

\* Session::process_line up to the dispatch: the session after the line,
\* whether the line completed a bulk string, whether the command is complete
\* and is dispatched, and whether std::stoi threw
process_line(ss, line) ==
    LET no == [session |-> ss, bulk_done |-> FALSE, dispatch |-> FALSE, throws |-> FALSE]
    IN  IF ss.reading_bulk_string_
        THEN LET bulk == ss.bulk_string_ \o line
             IN  IF SizeEquals(Len(bulk), ss.bulk_string_length_)
                 THEN LET command == Append(ss.current_command_, bulk)
                      IN  [no EXCEPT !.session = [ss EXCEPT !.bulk_string_ = bulk,
                                                            !.current_command_ = command,
                                                            !.reading_bulk_string_ = FALSE],
                                     !.bulk_done = TRUE,
                                     !.dispatch = SizeEquals(Len(command), ss.expected_parts_)]
                 ELSE [no EXCEPT !.session = [ss EXCEPT !.bulk_string_ = bulk \o CRLF]]
        ELSE IF line = << >> THEN no
        ELSE IF Head(line) = 42
        THEN LET n == stoi(Tail(line))
             IN  IF ~n.ok THEN [no EXCEPT !.throws = TRUE]
                 ELSE [no EXCEPT !.session = [ss EXCEPT !.expected_parts_ = n.value,
                                                        !.current_command_ = << >>]]
        ELSE IF Head(line) = 36
        THEN LET n == stoi(Tail(line))
             IN  IF ~n.ok THEN [no EXCEPT !.throws = TRUE]
                 ELSE [no EXCEPT !.session = [ss EXCEPT !.bulk_string_length_ = n.value,
                                                        !.reading_bulk_string_ = TRUE,
                                                        !.bulk_string_ = << >>]]
        ELSE no

\* which store call process_command makes for args
IsSet(args) == args # << >> /\ args[1] = SET /\ Len(args) = 3
\* GET taken with any number of arguments after the key
IsGet_AnyArity(args) == args # << >> /\ args[1] = GET /\ Len(args) >= 2
IsGet(args) == args # << >> /\ args[1] = GET /\ Len(args) = 2
IsDel(args) == args # << >> /\ args[1] = DEL /\ Len(args) = 2

\* the store call of process_command ends by std::runtime_error: the file of
\* the bin cannot be opened (get opens it only when the cache misses)
StoreThrows(args) ==
    \/ (IsSet(args) \/ IsDel(args)) /\ hash(args[2]) \in faulty
    \/ /\ IsGet(args)
       /\ hash(args[2]) \in faulty
       /\ LRU_get_ret(cache[hash(args[2])], args[2]) = nullopt

\* process_command that answers every DEL with ":1\r\n"
process_command_DelAlwaysOne(args) ==
    IF args = << >> THEN ErrEmpty
    ELSE IF IsSet(args) THEN OkReply
    ELSE IF IsGet(args)
    THEN LET result == GetRet(args[2])
         IN  IF result = nullopt THEN NilReply
             ELSE << 36 >> \o to_string(Len(result)) \o CRLF \o result \o CRLF
    ELSE IF IsDel(args) THEN OneReply
    ELSE ErrUnknown

\* Session::process_command: the response returned
process_command(args) ==
    IF args = << >> THEN ErrEmpty
    ELSE IF IsSet(args) THEN OkReply
    ELSE IF IsGet(args)
    THEN LET result == GetRet(args[2])
         IN  IF result = nullopt THEN NilReply
             ELSE << 36 >> \o to_string(Len(result)) \o CRLF \o result \o CRLF
    ELSE IF IsDel(args) THEN (IF EraseRet(args[2]) = TrueV THEN OneReply ELSE ZeroReply)
    ELSE ErrUnknown

\* Session::process_command: what its call does to the store.  A call that
\* throws has done what precedes the opening of the file: cache.put in
\* insert, cache.remove in erase.
StoreCall(args) ==
    IF IsSet(args) /\ ~StoreThrows(args) THEN InsertStore(args[2], args[3])
    ELSE IF IsSet(args)
    THEN /\ cache' = [cache EXCEPT ![hash(args[2])] = LRU_put(@, args[2], args[3])]
         /\ UNCHANGED << disk, evicted, kv >>
    ELSE IF IsGet(args) /\ ~StoreThrows(args) THEN GetStore(args[2]) /\ UNCHANGED << disk, kv >>
    ELSE IF IsDel(args) /\ ~StoreThrows(args) THEN EraseStore(args[2])
    ELSE IF IsDel(args)
    THEN /\ cache' = [cache EXCEPT ![hash(args[2])] = LRU_remove(@, args[2])]
         /\ UNCHANGED << disk, evicted, kv >>
    ELSE UNCHANGED << cache, disk, evicted, kv >>

\* the memory of a std::string after its destruction, read as overwritten
Freed(bytes) == [i \in 1 .. Len(bytes) |-> 0]

\* a write holds the bytes still to send, whether it waits in the queue of
\* the reactor (it was started while the socket took nothing) or for its
\* continuation to run (the socket took a part), and the number of its reply
Pending(rest, queued, reply) == [rest |-> rest, queued |-> queued, reply |-> reply]

SomeQueued(ops) == \E i \in DOMAIN ops : ops[i].queued

\* the numbers of bytes a non-blocking send of bytes can take when started:
\* all when the socket is not congested; nothing behind a queued write
Takes(bytes, congested) ==
    IF ~congested THEN { Len(bytes) }
    ELSE IF SomeQueued(socket_.ops) THEN { 0 }
    ELSE IF socket_.stalls >= MaxStalls THEN { Len(bytes) }
    ELSE 0 .. Len(bytes)

\* the sends that took a part only, after one more that took n of bytes
Stalls(bytes, n) ==
    IF n < Len(bytes) /\ ~SomeQueued(socket_.ops) THEN socket_.stalls + 1
    ELSE socket_.stalls

\* Session::send_response: asio::async_write(socket_, asio::buffer(response),
\* ...) starts by a send that takes n bytes.  The buffer refers to the local
\* string of process_line, destroyed when send_response has returned: what
\* is sent later is read from freed memory.
send_response(response, n, rest) ==
    [sent |-> socket_.sent \o SubSeq(response, 1, n),
     order |-> socket_.order \o [i \in 1 .. n |-> socket_.writes + 1],
     ops |-> IF n = Len(response) THEN socket_.ops
             ELSE Append(socket_.ops, Pending(rest, n = 0, socket_.writes + 1)),
     writes |-> socket_.writes + 1,
     replies |-> socket_.replies \o response,
     stalls |-> Stalls(response, n),
     closed |-> socket_.closed,
     errors |-> socket_.errors]

\* Session::send_response on a connection the peer has closed: the write
\* completes with an error code and sends nothing; its handler writes
\* "Error writing response" to std::cerr and returns
write_error(response) ==
    [socket_ EXCEPT !.writes = @ + 1, !.replies = @ \o response, !.errors = @ + 1]

Remaining(response, n) ==
    LET rest == SubSeq(response, n + 1, Len(response))
    IN  IF rest = << >> THEN { rest } ELSE { rest, Freed(rest) }

\* what the client may send at once: a command as Client::send_command
\* encodes it, or bytes of its own
CommandInput(args) == [parts |-> args, bytes |-> format_resp(args)]
RawInput(bytes) == [parts |-> << VoidV >>, bytes |-> bytes]

WireKeys == { << 1 >>, << 2 >> }
WireValues == { << >>, << 7 >>, << 13 >>, << 10 >>, << 13, 10 >>, << 0 >> }

\* every value is set at the first key; the second key is there to evict it
StoreCommands ==
    { << SET, << 1 >>, v >> : v \in WireValues } \cup { << SET, << 2 >>, << 7 >> >> }
        \cup { << GET, k >> : k \in WireKeys } \cup { << DEL, k >> : k \in WireKeys }

\* no command, an unknown one, and known ones with too few and too many
\* arguments
OtherCommands == { << >>, << PING >>, << SET, << 1 >> >>, << GET, << 1 >>, << 2 >> >> }

\* bulk strings that no array header precedes
RawInputs == { BulkStrings(<< GET, << 1 >> >>) }

Inputs ==
    { CommandInput(args) : args \in StoreCommands \cup OtherCommands }
        \cup { RawInput(bytes) : bytes \in RawInputs }

\* main: StorageEngine("data", 512, OPEN) on a directory without files, the
\* acceptor open, the threads in io_context::run; one client is connected.
\* The model has one bin of capacity one.
InitServer ==
    /\ num_bins = 1
    /\ cache = [b \in { 0 } |-> LRU_new(1)]
    /\ disk = [b \in Bins |-> << >>]
    /\ mutex = [b \in Bins |-> "free"]
    /\ stop_gc = FALSE
    /\ gc = GcStart
    /\ client = IdleClient
    /\ store = "up"
    /\ kv = [k \in Keys |-> nullopt]
    /\ evicted = {}
    /\ last = NoCall
    /\ recency = NoAccess
    /\ dir = {}
    /\ readers = << >>
    /\ session = InitialSession
    /\ buffer_ = << >>
    /\ socket_ = NoSocket
    /\ threads = "running"
    /\ faulty = {}
    /\ wire = NoWire

\* the client sends input once the server has read what it sent before
Send(input) ==
    /\ threads = "running"
    /\ buffer_ = << >>
    /\ wire.count < MaxFrames
    /\ buffer_' = input.bytes
    /\ wire' = [wire EXCEPT !.count = @ + 1, !.input = input]
    /\ UNCHANGED << num_bins, disk, cache, mutex, stop_gc, gc, client, store, kv, evicted,
                    last, recency, dir, readers, session, socket_, threads, faulty >>

\* the file of bin b can no longer be opened (its directory is removed, the
\* process is out of descriptors)
Break(b) ==
    /\ threads = "running"
    /\ b \notin faulty
    /\ faulty' = faulty \cup { b }
    /\ UNCHANGED << num_bins, disk, cache, mutex, stop_gc, gc, client, store, kv, evicted,
                    last, recency, dir, readers, session, buffer_, socket_, threads, wire >>

\* the completion handler of Session::read_line: one line is taken from the
\* buffer and processed, a complete command is executed and answered, and
\* the next read is started.  An exception leaves the handler and
\* io_context::run of the thread, which has no handler for it:
\* std::terminate ends the process.
ReadLine(congested) ==
    /\ threads = "running"
    /\ HasCRLF(buffer_)
    /\ LET got == getline(buffer_)
           r == process_line(session, got.line)
           args == r.session.current_command_
           throws == r.throws \/ (r.dispatch /\ StoreThrows(args))
           response == process_command(args)
           is_header == ~session.reading_bulk_string_ /\ got.line # << >>
                        /\ Head(got.line) = 42 /\ ~r.throws
           counted == IF is_header
                      THEN [header |-> << r.session.expected_parts_ >>, bulks |-> 0]
                      ELSE IF r.bulk_done
                      THEN [header |-> wire.header, bulks |-> wire.bulks + 1]
                      ELSE [header |-> wire.header, bulks |-> wire.bulks]
       IN  /\ buffer_' = got.rest
           /\ IF r.dispatch THEN StoreCall(args)
              ELSE UNCHANGED << cache, disk, evicted, kv >>
           /\ IF throws
              THEN /\ threads' = "terminated"
                   /\ session' = r.session
                   /\ UNCHANGED socket_
              ELSE IF r.dispatch
              THEN /\ session' = InitialSession
                   /\ IF socket_.closed
                      THEN socket_' = write_error(response)
                      ELSE \E n \in Takes(response, congested) :
                              \E rest \in Remaining(response, n) :
                                 socket_' = send_response(response, n, rest)
                   /\ UNCHANGED threads
              ELSE /\ session' = r.session
                   /\ UNCHANGED << socket_, threads >>
           /\ wire' = IF r.dispatch /\ ~throws
                      THEN [wire EXCEPT !.header = << >>, !.bulks = 0]
                      ELSE [wire EXCEPT !.header = counted.header,
                                        !.bulks = counted.bulks]
           /\ last' = [op |-> "line", key |-> got.line, bin |-> 0,
                       ret |-> IF throws THEN ErrV
                               ELSE IF r.dispatch THEN response ELSE VoidV,
                       was |-> [kv |-> kv, disk |-> disk, cache |-> cache,
                                replies |-> socket_.replies,
                                errors |-> socket_.errors,
                                dispatch |-> r.dispatch, bulk_done |-> r.bulk_done,
                                args |-> IF r.dispatch THEN args ELSE << >>,
                                header |-> counted.header, bulks |-> counted.bulks]]
    /\ UNCHANGED << num_bins, mutex, stop_gc, gc, client, store, recency, dir, readers,
                    faulty >>

NextServer ==
    \/ \E input \in Inputs : Send(input)
    \/ \E b \in Bins : Break(b)
    \/ ReadLine(FALSE)

SpecServer == InitServer /\ [][NextServer]_vars

\* ------------------------------------- the replies on a congested socket
\* The client sends its commands without reading the replies, so that the
\* socket does not take every reply at once.

WriteInputs ==
    { CommandInput(args) : args \in { << SET, << 1 >>, << 7 >> >>, << GET, << 1 >> >>,
                                      << DEL, << 1 >> >> } }

RemoveAt(ops, i) ==
    [j \in 1 .. (Len(ops) - 1) |-> IF j < i THEN ops[j] ELSE ops[j + 1]]

\* the socket takes the first m bytes of the write at i, which is complete
\* then, or goes on as next
Written(i, m, next) ==
    LET op == socket_.ops[i]
    IN  [socket_ EXCEPT !.sent = @ \o SubSeq(op.rest, 1, m),
                        !.order = @ \o [x \in 1 .. m |-> op.reply],
                        !.ops = IF m = Len(op.rest) THEN RemoveAt(@, i) ELSE next,
                        !.stalls = IF op.queued /\ m < Len(op.rest) THEN @ + 1
                                   ELSE Stalls(op.rest, m)]

\* the continuation of asio::async_write runs in a thread of the pool after
\* the socket took a part of the reply: it starts a send of the rest, which
\* waits behind the sends the reactor holds
Continue(i) ==
    /\ threads = "running"
    /\ i \in DOMAIN socket_.ops
    /\ ~socket_.ops[i].queued
    /\ LET op == socket_.ops[i]
       IN  \E m \in Takes(op.rest, TRUE) :
              socket_' = Written(i, m,
                             Append(RemoveAt(socket_.ops, i),
                                    Pending(SubSeq(op.rest, m + 1, Len(op.rest)), m = 0,
                                            op.reply)))
    /\ UNCHANGED << num_bins, disk, cache, mutex, stop_gc, gc, client, store, kv, evicted,
                    last, recency, dir, readers, session, buffer_, threads, faulty, wire >>

\* the socket is writable again: the reactor performs the first send it
\* holds, of which the socket takes at least a byte
Drain ==
    /\ threads = "running"
    /\ SomeQueued(socket_.ops)
    /\ LET i == CHOOSE j \in DOMAIN socket_.ops :
                   /\ socket_.ops[j].queued
                   /\ \A h \in 1 .. (j - 1) : ~socket_.ops[h].queued
           op == socket_.ops[i]
       IN  \E m \in (IF socket_.stalls >= MaxStalls THEN { Len(op.rest) }
                       ELSE 1 .. Len(op.rest)) :
              socket_' = Written(i, m,
                             [socket_.ops EXCEPT
                                 ![i] = Pending(SubSeq(op.rest, m + 1, Len(op.rest)), FALSE,
                                                op.reply)])
    /\ UNCHANGED << num_bins, disk, cache, mutex, stop_gc, gc, client, store, kv, evicted,
                    last, recency, dir, readers, session, buffer_, threads, faulty, wire >>

NextWrite ==
    \/ \E input \in WriteInputs : Send(input)
    \/ ReadLine(TRUE)
    \/ \E i \in 1 .. MaxFrames : Continue(i)
    \/ Drain

SpecWrite == InitServer /\ [][NextWrite]_vars

\* ------------------------- the collector thread from its start to its end
\* gc.pc: "test" at the condition of the loop of runGarbageCollector, "sleep"
\* in sleep_for, "call" before the compressFile of bin gc.bin, "exit" when
\* the thread function has returned.  History: gc.stopped is stop_gc as the
\* last sleep ended, gc.late counts the sleeps that ended with stop_gc set.
GcThread ==
    [pc |-> "test", bin |-> 0, read_pos |-> 0, write_pos |-> 0, stopped |-> FALSE,
     late |-> 0]

InitGc ==
    /\ num_bins = 2
    /\ cache = [b \in { 0, 1 } |-> LRU_new(1)]
    /\ disk = [b \in Bins |-> << >>]
    /\ mutex = [b \in Bins |-> "free"]
    /\ stop_gc = FALSE
    /\ gc = GcThread
    /\ client = IdleClient
    /\ store = "up"
    /\ kv = [k \in Keys |-> nullopt]
    /\ evicted = {}
    /\ last = NoCall
    /\ recency = NoAccess
    /\ StoreAlone

\* while (!stop_gc)
GcTest ==
    /\ gc.pc = "test"
    /\ gc' = [gc EXCEPT !.pc = IF stop_gc THEN "exit" ELSE "sleep"]
    /\ UNCHANGED << front, recency, num_bins, disk, cache, mutex, stop_gc, client, store, kv,
                    evicted, last >>

\* std::this_thread::sleep_for returns; the pass starts at the first bin
GcWake ==
    /\ gc.pc = "sleep"
    /\ gc' = [gc EXCEPT !.pc = "call", !.bin = 0, !.stopped = stop_gc,
                        !.late = IF stop_gc THEN @ + 1 ELSE @]
    /\ UNCHANGED << front, recency, num_bins, disk, cache, mutex, stop_gc, client, store, kv,
                    evicted, last >>

\* the collector thread gets the lock of the next bin of its pass and goes
\* on past the call: to the next bin, and after the last bin to the
\* condition of the loop
GcPast ==
    /\ gc.pc = "call"
    /\ mutex[gc.bin] = "free"
    /\ gc' = IF gc.bin + 1 = num_bins THEN [gc EXCEPT !.pc = "test", !.bin = 0]
             ELSE [gc EXCEPT !.bin = gc.bin + 1]

\* bin->compressFile() for the next bin of the pass, as a whole
\* last.was: the file before the call and whether the store still existed
GcCompress ==
    LET b == gc.bin
    IN  /\ GcPast
        /\ disk' = [disk EXCEPT ![b] = compressFile(disk[b])]
        /\ last' = [op |-> "compress", key |-> << >>, bin |-> b,
                    ret |-> compressFile(disk[b]), was |-> [f |-> disk[b], store |-> store]]
        /\ UNCHANGED << front, recency, num_bins, cache, mutex, stop_gc, client, store, kv,
                        evicted >>

InsertBeside(key, value) ==
    /\ CanCall(hash(key))
    /\ TotalRecs < GcRecs
    /\ InsertStore(key, value)
    /\ UNCHANGED << front, recency, num_bins, mutex, stop_gc, gc, client, store, last >>

\* ~PersistentHashMap: stop_gc = true
DtorStop ==
    /\ store = "up"
    /\ client.pc = "idle"
    /\ stop_gc' = TRUE
    /\ client' = [client EXCEPT !.pc = "join"]
    /\ UNCHANGED << front, recency, num_bins, disk, cache, mutex, gc, store, kv, evicted,
                    last >>

\* a join that returns while the thread runs
Joined_NoWait == TRUE

\* gc_thread.join() returns when the thread function has returned
Joined == gc.pc = "exit"

\* ~PersistentHashMap: gc_thread.join(); then the members are destroyed, the
\* bin controls with their caches among them
DtorJoin ==
    /\ client.pc = "join"
    /\ Joined
    /\ store' = "down"
    /\ cache' = [b \in Bins |-> LRU_new(cache[b].capacity)]
    /\ evicted' = {}
    /\ client' = IdleClient
    /\ UNCHANGED << front, recency, num_bins, disk, mutex, stop_gc, gc, kv, last >>

NextGc ==
    \/ GcTest
    \/ GcWake
    \/ GcCompress
    \/ \E key \in ConcKeys, value \in Values : InsertBeside(key, value)
    \/ \E key \in ConcKeys : EraseStep(key)
    \/ DtorStop
    \/ DtorJoin

SpecGc == InitGc /\ [][NextGc]_vars

\* the collector thread is scheduled, a sleep ends, and a lock that is free
\* is got (the steps that take the thread past a call are those of
\* GcCompress)
SpecGcFair == SpecGc /\ WF_vars(GcTest) /\ WF_vars(GcWake) /\ WF_gc(GcPast)

\* -------------------- PersistentHashMap::PersistentHashMap in OPEN mode
\* what a file of a bin may end with when the constructor finds it: nothing,
\* a cut header, a header of an entry longer than what follows
OpenTails == { << >>, << 1, 0, 0 >>, << 1, 0, 0, 0, 1, 0, 0, 0, 0, 2 >> }

\* the whole entries the files of the two bins may hold
OpenEntries ==
    [b \in { 0, 1 } |->
        IF b = 0 THEN { << >>, Record(<< 1 >>, << 7 >>, 0) }
        ELSE { << >>, Record(<< 2 >>, << >>, 1) \o Record(<< 1, 2 >>, << 7 >>, 0) }]

\* client.i: the bins the loop of the constructor has passed.  History:
\* client.existed, the bins whose file the constructor found, and
\* client.checked, the bins binCheck has returned for.
InitOpen ==
    /\ num_bins = 2
    /\ cache = [b \in { 0, 1 } |-> LRU_new(1)]
    /\ \E existed \in SUBSET { 0, 1 } :
          /\ client = [pc |-> "ctor", key |-> << >>, value |-> << >>, i |-> 0,
                       existed |-> existed, checked |-> {}]
          /\ \E f \in [{ 0, 1 } -> { p \o t : p \in UNION { OpenEntries[b] : b \in { 0, 1 } },
                                               t \in OpenTails }] :
                /\ \A b \in { 0, 1 } :
                      IF b \in existed
                      THEN \E p \in OpenEntries[b], t \in OpenTails : f[b] = p \o t
                      ELSE f[b] = << >>
                /\ disk = f
    /\ mutex = [b \in Bins |-> "free"]
    /\ stop_gc = FALSE
    /\ gc = [GcThread EXCEPT !.pc = "none"]
    /\ store = "down"
    /\ kv = [k \in Keys |-> GetScan(binCheck(disk[hash(k)]), k, 0)]
    /\ evicted = {}
    /\ last = NoCall
    /\ recency = NoAccess
    /\ StoreAlone

\* one turn of the loop of the constructor: the file of bin client.i is
\* created when it does not exist and recovered by binCheck when it does
\* last.was: the file before the turn
OpenBin ==
    LET b == client.i
    IN  /\ client.pc = "ctor"
        /\ b < num_bins
        /\ disk' = [disk EXCEPT ![b] = IF b \in client.existed THEN binCheck(@) ELSE << >>]
        /\ client' = [client EXCEPT !.i = b + 1,
                                    !.checked = IF b \in client.existed THEN @ \cup { b }
                                                ELSE @]
        /\ last' = [op |-> IF b \in client.existed THEN "binCheck" ELSE "create",
                    key |-> << >>, bin |-> b, ret |-> VoidV, was |-> disk[b]]
        /\ UNCHANGED << front, recency, num_bins, cache, mutex, stop_gc, gc, store, kv,
                        evicted >>

\* a constructor that starts the thread and returns at any turn of its loop
LoopDone_Early == TRUE

\* the loop of the constructor has passed every bin
LoopDone == client.i = num_bins

\* the collector thread is started and the constructor returns: the store
\* can be called
OpenStart ==
    /\ client.pc = "ctor"
    /\ LoopDone
    /\ gc' = GcThread
    /\ store' = "up"
    /\ client' = [client EXCEPT !.pc = "idle"]
    /\ UNCHANGED << front, recency, num_bins, disk, cache, mutex, stop_gc, kv, evicted,
                    last >>

NextOpen ==
    \/ OpenBin
    \/ OpenStart
    \/ \E key \in ConcKeys, value \in Values : Insert(key, value)
    \/ \E key \in Keys : Get(key)
    \/ \E key \in Keys : Erase(key)
    \/ GcTest
    \/ GcWake
    \/ GcCompress

SpecOpen == InitOpen /\ [][NextOpen]_vars

\* ---------------------------------------------------------------------------
\* A reply that cannot be written
\* ---------------------------------------------------------------------------

\* the client sends two commands at once
SendBatch(a, b) ==
    /\ threads = "running"
    /\ ~socket_.closed
    /\ buffer_ = << >>
    /\ wire.count < MaxFrames
    /\ buffer_' = a.bytes \o b.bytes
    /\ wire' = [wire EXCEPT !.count = @ + 1, !.input = RawInput(a.bytes \o b.bytes)]
    /\ UNCHANGED << num_bins, disk, cache, mutex, stop_gc, gc, client, store, kv, evicted,
                    last, recency, dir, readers, session, socket_, threads, faulty >>

\* the client closes the connection: every later write of a reply fails,
\* while the lines that buffer_ holds already are still read, since
\* asio::async_read_until completes without error when the buffer holds
\* the delimiter.  A read that finds no line in the buffer fails, and its
\* handler starts no other read.
PeerClose ==
    /\ threads = "running"
    /\ ~socket_.closed
    /\ socket_' = [socket_ EXCEPT !.closed = TRUE]
    /\ UNCHANGED << num_bins, disk, cache, mutex, stop_gc, gc, client, store, kv, evicted,
                    last, recency, dir, readers, session, buffer_, threads, faulty, wire >>

NextFail ==
    \/ \E a, b \in WriteInputs : SendBatch(a, b)
    \/ PeerClose
    \/ ReadLine(FALSE)

SpecFail == InitServer /\ [][NextFail]_vars

\* ---------------------------------------------------------------------------
\* Several threads in BinControl::insert
\* ---------------------------------------------------------------------------

\* the threads that call insert
Writers == { 1, 2 }

\* a thread that is in no insert
IdleWriter == [pc |-> "idle", key |-> << >>, value |-> << >>]

\* history kept in last.was: won[k] is the value of the insert of k that
\* took the lock last, seen the pairs inserted so far, met whether a thread
\* took the lock while another waited for it or held it
NoInserts == [won |-> [k \in ConcKeys |-> VoidV], seen |-> {}, met |-> FALSE]

\* one bin with a cache of one entry, as InitConc, and the threads idle
InitWriters ==
    /\ num_bins = 1
    /\ cache = [b \in { 0 } |-> LRU_new(1)]
    /\ disk = [b \in Bins |-> << >>]
    /\ mutex = [b \in Bins |-> "free"]
    /\ stop_gc = FALSE
    /\ gc = GcStart
    /\ client = IdleClient
    /\ store = "up"
    /\ kv = [k \in Keys |-> nullopt]
    /\ evicted = {}
    /\ last = [NoCall EXCEPT !.was = NoInserts]
    /\ recency = NoAccess
    /\ dir = {}
    /\ readers = [w \in Writers |-> IdleWriter]
    /\ NoServer

\* what the threads in insert leave alone
WriterFrame ==
    UNCHANGED << dir, session, buffer_, socket_, threads, faulty, wire, recency, num_bins,
                 stop_gc, gc, client, store >>

\* a unique_lock that is granted whoever holds the mutex
LockFree_Always(b) == TRUE

\* std::unique_lock lock(mutex) is granted when nobody holds the mutex
LockFree(b) == mutex[b] = "free" /\ NoReaderIn(b)

\* BinControl::insert is called: the thread is at std::unique_lock lock(mutex)
WriteCall(w, key, value) ==
    /\ store = "up"
    /\ readers[w].pc = "idle"
    /\ readers' = [readers EXCEPT ![w] = [pc |-> "wait", key |-> key, value |-> value]]
    /\ UNCHANGED << cache, disk, mutex, kv, evicted, last >>
    /\ WriterFrame

\* BinControl::insert: the lock is taken, cache.put
WriteLock(w) ==
    LET key == readers[w].key
        value == readers[w].value
        b == hash(key)
        c == LRU_put(cache[b], key, value)
    IN  /\ readers[w].pc = "wait"
        /\ LockFree(b)
        /\ TotalRecs < ConcRecs
        /\ mutex' = [mutex EXCEPT ![b] = "client"]
        /\ cache' = [cache EXCEPT ![b] = c]
        /\ evicted' = (evicted \cup Dropped(cache[b], c)) \ {key}
        /\ readers' = [readers EXCEPT ![w].pc = "insert_scan"]
        /\ last' = [op |-> "lock", key |-> key, bin |-> b, ret |-> value,
                    was |-> [won |-> [last.was.won EXCEPT ![key] = value],
                             seen |-> last.was.seen \cup { << key, value >> },
                             met |-> last.was.met \/
                                     \E v \in Writers \ { w } : readers[v].pc # "idle"]]
        /\ UNCHANGED << disk, kv >>
        /\ WriterFrame

\* BinControl::insert: the scan loop marks the live entry of the key deleted
WriteMark(w) ==
    LET b == hash(readers[w].key)
    IN  /\ readers[w].pc = "insert_scan"
        /\ disk' = [disk EXCEPT ![b] = InsertScan(disk[b], readers[w].key, 0)]
        /\ readers' = [readers EXCEPT ![w].pc = "insert_append"]
        /\ UNCHANGED << cache, mutex, kv, evicted, last >>
        /\ WriterFrame

\* BinControl::insert: the new entry is written at the end of the file, the
\* file is closed, the lock released and the call returns
WriteAppend(w) ==
    LET b == hash(readers[w].key)
    IN  /\ readers[w].pc = "insert_append"
        /\ disk' = [disk EXCEPT ![b] =
                      disk[b] \o Record(readers[w].key, readers[w].value, 0)]
        /\ mutex' = [mutex EXCEPT ![b] = "free"]
        /\ kv' = [kv EXCEPT ![readers[w].key] = readers[w].value]
        /\ readers' = [readers EXCEPT ![w] = IdleWriter]
        /\ UNCHANGED << cache, evicted, last >>
        /\ WriterFrame

NextWriters ==
    \/ \E w \in Writers, key \in ConcKeys, value \in Values : WriteCall(w, key, value)
    \/ \E w \in Writers : WriteLock(w)
    \/ \E w \in Writers : WriteMark(w)
    \/ \E w \in Writers : WriteAppend(w)
    \/ CompressLock
    \/ CompressIter
    \/ CompressResize

SpecWriters == InitWriters /\ [][NextWriters]_vars

\* ---------------------------------------------------------------------------
\* The process stops inside a call
\* ---------------------------------------------------------------------------

\* what the store holds for each key once binCheck has run on the files
Recovered(files) == [k \in Keys |-> GetScan(binCheck(files[hash(k)]), k, 0)]

\* the process is gone and the files stay: no cache, no lock, no thread
Stopped(files, note) ==
    /\ disk' = files
    /\ cache' = [b \in Bins |-> LRU_new(cache[b].capacity)]
    /\ evicted' = {}
    /\ mutex' = [b \in Bins |-> "free"]
    /\ client' = IdleClient
    /\ gc' = GcStart
    /\ store' = "down"
    /\ kv' = Recovered(files)
    /\ last' = [op |-> "stop", key |-> note.key, bin |-> hash(note.key), ret |-> VoidV,
                was |-> note]
    /\ UNCHANGED << front, recency, num_bins, stop_gc >>

\* The process stops inside BinControl::insert: before the scan has marked
\* anything (n = 0), or after the scan, when the old entry is marked deleted
\* and n bytes of the new entry are in the file.
\* last.was: the key, the value it had (old), the value of the call (new)
\* and the values of all keys before the call
StopInInsert(n) ==
    LET b == hash(client.key)
        rec == Record(client.key, client.value, 0)
    IN  /\ store = "up"
        /\ client.pc \in { "insert_scan", "insert_append" }
        /\ n <= Len(rec)
        /\ client.pc = "insert_scan" => n = 0
        /\ Stopped([disk EXCEPT ![b] = disk[b] \o SubSeq(rec, 1, n)],
                   [key |-> client.key, old |-> kv[client.key], new |-> client.value,
                    at |-> client.pc, n |-> n, before |-> kv])

NextStopInsert ==
    \/ \E key \in Keys, value \in Values : TotalRecs < ConcRecs /\ InsertCall(key, value)
    \/ InsertMark
    \/ InsertAppend
    \/ \E n \in 0 .. Len(Record(client.key, client.value, 0)) : StopInInsert(n)
    \/ Open

SpecStopInsert == Init /\ [][NextStopInsert]_vars

\* a file of which the n bytes after offset from are those of next already
Overwritten(f, next, from, n) ==
    [i \in 1 .. Len(f) |-> IF from < i /\ i <= from + n THEN next[i] ELSE f[i]]

\* The process stops inside BinControl::compressFile, in its loop: the live
\* entries read so far are rewritten from offset 0 on, n bytes of the entry
\* that the next turn writes are in the file as well, and the file has its
\* old length, since resize_file was not reached.  No insert is under way
\* in another bin (StopInInsert is about those stops).
StopInCompress(n) ==
    LET b == gc.bin
        st == CompressTurn([f |-> disk[b], read_pos |-> gc.read_pos,
                            write_pos |-> gc.write_pos, eof |-> FALSE])
    IN  /\ store = "up"
        /\ client.pc = "idle"
        /\ gc.pc \in { "loop", "resize" }
        /\ IF gc.pc = "loop" THEN n <= st.write_pos - gc.write_pos ELSE n = 0
        /\ Stopped([disk EXCEPT ![b] = IF gc.pc = "loop"
                                       THEN Overwritten(disk[b], st.f, gc.write_pos, n)
                                       ELSE disk[b]],
                   [key |-> << >>, old |-> VoidV, new |-> VoidV, at |-> "compress",
                    n |-> n, before |-> kv])

\* the inserts are those of a store that has not stopped before
NextStopCompress ==
    \/ \E key \in Keys, value \in Values : last.op = "none" /\ InsertCall(key, value)
    \/ InsertMark
    \/ InsertAppend
    \/ CompressLock
    \/ CompressIter
    \/ CompressResize
    \/ \E n \in 0 .. MaxTail : StopInCompress(n)
    \/ Open

SpecStopCompress == Init /\ [][NextStopCompress]_vars

\* ---------------------------------------------------------------------------
\* BinControl::insert on a file that cannot be opened
\* ---------------------------------------------------------------------------

\* the file of bin b can no longer be opened by the process of the store
FileLost(b) ==
    /\ store = "up"
    /\ client.pc = "idle"
    /\ b \notin faulty
    /\ faulty' = faulty \cup { b }
    /\ UNCHANGED << num_bins, disk, cache, mutex, stop_gc, gc, client, store, kv, evicted,
                    last, recency, dir, readers, session, buffer_, socket_, threads, wire >>

\* the file of bin b can be opened again, with the content it had
FileBack(b) ==
    /\ store = "up"
    /\ b \in faulty
    /\ faulty' = faulty \ { b }
    /\ UNCHANGED << num_bins, disk, cache, mutex, stop_gc, gc, client, store, kv, evicted,
                    last, recency, dir, readers, session, buffer_, socket_, threads, wire >>

\* BinControl::insert when the file cannot be opened: unique_lock,
\* cache.put, then std::runtime_error("Failed to open file") leaves the call.
\* last.was: the cache, the file and the result of get before the call, and
\* the value of the call
InsertFails(key, value) ==
    LET b == hash(key)
        c == LRU_put(cache[b], key, value)
    IN  /\ CanCall(b)
        /\ b \in faulty
        /\ cache' = [cache EXCEPT ![b] = c]
        /\ evicted' = (evicted \cup Dropped(cache[b], c)) \ {key}
        /\ last' = [op |-> "insert", key |-> key, bin |-> b, ret |-> ErrV,
                    was |-> [cache |-> cache, disk |-> disk, get |-> GetValue(key),
                             value |-> value]]
        /\ UNCHANGED << front, recency, num_bins, disk, mutex, stop_gc, gc, client, store,
                        kv >>

\* the calls on a bin whose file cannot be opened: insert throws, get
\* returns what the cache holds (a miss goes to the file and throws, and is
\* left out)
NextFaulty ==
    \/ \E b \in Bins : FileLost(b)
    \/ \E b \in Bins : FileBack(b)
    \/ \E key \in Keys, value \in Values : hash(key) \notin faulty /\ Insert(key, value)
    \/ \E key \in Keys, value \in Values : InsertFails(key, value)
    \/ \E key \in Keys :
          (hash(key) \notin faulty \/ key \in DOMAIN cache[hash(key)].lruMap) /\ Get(key)

SpecFaulty == Init /\ [][NextFaulty]_vars

\* ---------------------------------------------------------------------------
\* binCheck on files of any size
\* ---------------------------------------------------------------------------
\* A number beyond 2^31 is written << hi, lo >> for hi * 2^16 + lo with lo
\* in 0 .. 2^16 - 1: the offsets (std::streamoff, 64 bits) and the sums of
\* two lengths (int, 32 bits) keep their widths.
W16 == 2 ^ 16

Norm(hi, lo) == << hi + (lo \div W16), lo % W16 >>

WideOf(n) == Norm(0, n)

WAdd(a, b) == Norm(a[1] + b[1], a[2] + b[2])

WLess(a, b) == a[1] < b[1] \/ (a[1] = b[1] /\ a[2] < b[2])

WNegative(a) == a[1] < 0

\* the value of type int that has the low 32 bits of a
Int32(a) == << ((a[1] + 2 ^ 15) % W16) - 2 ^ 15, a[2] >>

\* the four bytes of the int a, little-endian
WideBytes(a) == << a[2] % 256, a[2] \div 256, a[1] % 256, (a[1] \div 256) % 256 >>

\* A file of size bytes that starts with the bytes head and holds zero
\* bytes after them: the byte at offset a
ByteAt(head, a) == IF a[1] = 0 /\ a[2] < Len(head) THEN head[a[2] + 1] ELSE 0

\* file.read(reinterpret_cast<char*>(&x), sizeof(int)) at offset a
ReadWide(head, a) ==
    LET b(i) == ByteAt(head, WAdd(a, WideOf(i)))
    IN  << b(2) + 256 * (IF b(3) >= 128 THEN b(3) - 256 ELSE b(3)), b(0) + 256 * b(1) >>

\* the footprint computed with the sum of the two lengths in type int
Footprint_IntSum(tellg, key_length, value_length) ==
    WAdd(tellg, Int32(WAdd(key_length, value_length)))

\* static_cast<std::streamoff>(file.tellg()) + key_length + value_length:
\* both additions are made in std::streamoff
Footprint(tellg, key_length, value_length) == WAdd(WAdd(tellg, key_length), value_length)

\* x > file_size with x of type std::streamoff and file_size of type
\* uintmax_t: x is converted to uintmax_t, a negative x to a value beyond
\* every file size
ExceedsSize(x, file_size) == WNegative(x) \/ WLess(file_size, x)

\* One turn of the loop of BinControl::binCheck on the file (head, size) with
\* the stream at offset pos, in the failed state or not: whether the entry
\* is accepted, and its lengths.
CheckTurn(head, size, pos, failed) ==
    LET complete == ~failed /\ ~WNegative(pos) /\ ~WLess(size, WAdd(pos, WideOf(HeaderSize)))
        key_length == ReadWide(head, pos)
        value_length == ReadWide(head, WAdd(pos, WideOf(4)))
        tellg == WAdd(pos, WideOf(HeaderSize))
    IN  [complete |-> complete, key_length |-> key_length, value_length |-> value_length,
         accepted |-> /\ complete
                      /\ ~WNegative(key_length)
                      /\ ~WNegative(value_length)
                      /\ ~ExceedsSize(Footprint(tellg, key_length, value_length), size)]

\* file.seekg(key_length + value_length, std::ios::cur): the sum is made in
\* type int.  Beyond INT_MAX it is undefined: the build yields the sum
\* wrapped to 32 bits (add, then sign extension) or the sum made in 64 bits.
SeekOffsets(key_length, value_length) ==
    LET sum == WAdd(key_length, value_length)
    IN  IF Int32(sum) = sum THEN { sum } ELSE { Int32(sum), sum }

\* the lengths in the header at the start of a file
BigLengths ==
    { WideOf(-1), WideOf(0), WideOf(2), << 2 ^ 14, 0 >>, << 2 ^ 15 - 1, W16 - 8 >>,
      << 2 ^ 15 - 1, W16 - 1 >>, << -(2 ^ 15), 0 >> }

\* a scan at the start of a file
ScanStart(head, size) ==
    [pc |-> "scan", head |-> head, size |-> size, pos |-> WideOf(0), prev |-> WideOf(-1),
     failed |-> FALSE, undefined |-> FALSE, threw |-> FALSE]

\* one file that starts with a header of any two lengths, of a size around
\* the footprint of the entry or of a few bytes
InitScan ==
    /\ num_bins = 1
    /\ disk = [b \in {0} |-> << >>]
    /\ cache = [b \in {0} |-> LRU_new(1)]
    /\ mutex = [b \in {0} |-> "free"]
    /\ stop_gc = FALSE
    /\ gc = GcStart
    /\ \E k \in BigLengths, v \in BigLengths, d \in { 0, 1 } :
          \E size \in { WideOf(n) : n \in 0 .. MaxTail + 2 } \cup
                      { WAdd(Footprint(WideOf(HeaderSize), k, v), WideOf(x)) :
                            x \in { -1, 0, 1, HeaderSize } } :
             /\ ~WNegative(size)
             /\ client = ScanStart(WideBytes(k) \o WideBytes(v) \o << d >>, size)
    /\ store = "down"
    /\ kv = [k \in Keys |-> nullopt]
    /\ evicted = {}
    /\ last = NoCall
    /\ recency = NoAccess
    /\ StoreAlone

ScanFrame ==
    UNCHANGED << front, recency, num_bins, disk, cache, mutex, stop_gc, gc, store, kv,
                 evicted >>

\* a turn of the loop of binCheck that accepts the entry and seeks to the
\* next one.  A seek to a negative offset fails: the stream is in the failed
\* state and tellg returns -1.
\* last.was: the offset, the lengths and the size the turn decided on
ScanAccept ==
    LET t == CheckTurn(client.head, client.size, client.pos, client.failed)
        tellg == WAdd(client.pos, WideOf(HeaderSize))
    IN  /\ client.pc = "scan"
        /\ t.accepted
        /\ WLess(client.pos, WideOf(Len(client.head)))
        /\ \E off \in SeekOffsets(t.key_length, t.value_length) :
              LET next == WAdd(tellg, off)
              IN  client' = [client EXCEPT
                     !.pos = IF WNegative(next) THEN WideOf(-1) ELSE next,
                     !.prev = client.pos,
                     !.failed = WNegative(next),
                     !.undefined = @ \/ Cardinality(SeekOffsets(t.key_length,
                                                                 t.value_length)) > 1]
        /\ last' = [op |-> "turn", key |-> << >>, bin |-> 0, ret |-> TrueV,
                    was |-> [pos |-> client.pos, size |-> client.size,
                             complete |-> t.complete, key_length |-> t.key_length,
                             value_length |-> t.value_length]]
        /\ ScanFrame

\* the turns of the loop over the zero bytes that follow the head: each
\* header of zero bytes is an empty entry, accepted while it fits
ScanZeros ==
    LET left == WAdd(client.size, << -client.pos[1], -client.pos[2] >>)
        rest == (left[1] * (W16 % HeaderSize) + left[2]) % HeaderSize
    IN  /\ client.pc = "scan"
        /\ ~client.failed
        /\ ~WLess(client.pos, WideOf(Len(client.head)))
        /\ ~WLess(client.size, WAdd(client.pos, WideOf(HeaderSize)))
        /\ client' = [client EXCEPT !.pos = WAdd(client.size, WideOf(-rest)),
                                    !.prev = client.pos]
        /\ last' = [op |-> "zeros", key |-> << >>, bin |-> 0, ret |-> TrueV,
                    was |-> [pos |-> client.pos, size |-> client.size]]
        /\ ScanFrame

\* the turn that rejects the entry: read_pos = entryStart and break; the file
\* is resized to read_pos.  std::filesystem::resize_file throws when read_pos
\* is -1, which it takes as a size of 2^64 - 1.
ScanReject ==
    LET t == CheckTurn(client.head, client.size, client.pos, client.failed)
    IN  /\ client.pc = "scan"
        /\ ~t.accepted
        /\ client' = [client EXCEPT !.pc = "done",
                                    !.size = IF WNegative(client.pos) THEN @ ELSE client.pos,
                                    !.threw = WNegative(client.pos)]
        /\ last' = [op |-> "turn", key |-> << >>, bin |-> 0, ret |-> FalseV,
                    was |-> [pos |-> client.pos, size |-> client.size,
                             complete |-> t.complete, key_length |-> t.key_length,
                             value_length |-> t.value_length]]
        /\ ScanFrame

NextScan == ScanAccept \/ ScanZeros \/ ScanReject

SpecScan == InitScan /\ [][NextScan]_vars

\* ---------------------------------------------------------------------------
\* the passes of the collector thread, call by call, over files that may fail
\* ---------------------------------------------------------------------------
\* the exceptions that leave compressFile when the file cannot be opened,
\* read, written or resized: std::runtime_error, and
\* std::filesystem::filesystem_error, which derives from it
IoErrors == { "runtime_error", "filesystem_error" }

\* a loop of the passes without a handler: every exception leaves the thread
GcCatch_Nothing(e) == FALSE

\* catch (const std::runtime_error &e)
GcCatch(e) == e \in { "runtime_error", "filesystem_error" }

\* a lock that stays taken when the call is left
Unlocked_Kept(m, b) == m

\* ~unique_lock as compressFile is left, by its return or by an exception
Unlocked(m, b) == [m EXCEPT ![b] = "free"]

\* three bins, the collector thread at the test of its loop
InitPass ==
    /\ num_bins = 3
    /\ cache = [b \in { 0, 1, 2 } |-> LRU_new(1)]
    /\ disk = [b \in Bins |-> << >>]
    /\ mutex = [b \in Bins |-> "free"]
    /\ stop_gc = FALSE
    /\ gc = GcThread
    /\ client = IdleClient
    /\ store = "up"
    /\ kv = [k \in Keys |-> nullopt]
    /\ evicted = {}
    /\ last = NoCall
    /\ recency = NoAccess
    /\ StoreAlone

\* for (auto &bin : bin_controls): the thread after the call for bin gc.bin
PassOn ==
    IF gc.bin + 1 = num_bins THEN [gc EXCEPT !.pc = "test", !.bin = 0]
    ELSE [gc EXCEPT !.pc = "call", !.bin = gc.bin + 1]

\* history: the calls of the pass so far, last.was, with the call that ends
\* now; ret is VoidV for a call that returned and ErrV for one whose
\* exception was caught and written to std::cerr
PassNote(ret) ==
    [op |-> "compress", key |-> << >>, bin |-> gc.bin, ret |-> ret,
     was |-> (IF gc.bin = 0 THEN << >> ELSE last.was) \o << [bin |-> gc.bin, ret |-> ret] >>]

\* BinControl::compressFile: std::unique_lock lock(mutex)
PassLock ==
    /\ gc.pc = "call"
    /\ mutex[gc.bin] = "free"
    /\ NoReaderIn(gc.bin)
    /\ mutex' = [mutex EXCEPT ![gc.bin] = "gc"]
    /\ gc' = [gc EXCEPT !.pc = "open", !.read_pos = 0, !.write_pos = 0]
    /\ UNCHANGED << front, recency, num_bins, disk, cache, stop_gc, client, store, kv, evicted,
                    last >>

\* BinControl::compressFile: the file is opened
PassOpen ==
    /\ gc.pc = "open"
    /\ gc.bin \notin faulty
    /\ gc' = [gc EXCEPT !.pc = "loop"]
    /\ UNCHANGED << front, recency, num_bins, disk, cache, mutex, stop_gc, client, store, kv,
                    evicted, last >>

\* BinControl::compressFile: the file cannot be opened and an exception
\* leaves the call, which releases the lock; the handler of
\* runGarbageCollector writes it to std::cerr and the pass goes on, and an
\* exception without a handler ends the thread
PassOpenFails(e) ==
    /\ gc.pc = "open"
    /\ gc.bin \in faulty
    /\ mutex' = Unlocked(mutex, gc.bin)
    /\ IF GcCatch(e)
       THEN gc' = PassOn /\ last' = PassNote(ErrV)
       ELSE gc' = [gc EXCEPT !.pc = "exit"] /\ UNCHANGED last
    /\ UNCHANGED << front, recency, num_bins, disk, cache, stop_gc, client, store, kv, evicted >>

\* BinControl::compressFile: the file is closed and resized to write_pos, the
\* call returns and the lock is released
PassResize ==
    /\ gc.pc = "resize"
    /\ disk' = [disk EXCEPT ![gc.bin] =
                  CompressTruncate([f |-> disk[gc.bin], read_pos |-> gc.read_pos,
                                    write_pos |-> gc.write_pos, eof |-> TRUE])]
    /\ mutex' = Unlocked(mutex, gc.bin)
    /\ gc' = PassOn
    /\ last' = PassNote(VoidV)
    /\ UNCHANGED << front, recency, num_bins, cache, stop_gc, client, store, kv, evicted >>

\* the collector's passes beside a client that inserts and erases step by
\* step, files that come and go, and the destructor
NextPass ==
    \/ GcTest
    \/ GcWake
    \/ PassLock
    \/ PassOpen
    \/ \E e \in IoErrors : PassOpenFails(e)
    \/ CompressIter
    \/ PassResize
    \/ \E b \in Bins : FileLost(b)
    \/ \E b \in Bins : FileBack(b)
    \/ \E key \in ConcKeys, value \in Values :
          /\ hash(key) \notin faulty
          /\ Len(disk[hash(key)]) < GcRecs * HeaderSize
          /\ InsertCall(key, value)
    \/ InsertMark
    \/ InsertAppend
    \/ \E key \in ConcKeys : hash(key) \notin faulty /\ EraseStep(key)
    \/ DtorStop
    \/ DtorJoin

SpecPass == InitPass /\ [][NextPass]_vars

\* ------------------------------------------------------------------ claims
\* the entries of a file that have the key
RECURSIVE EntriesOf(_, _)
EntriesOf(es, key) ==
    IF es = << >> THEN << >>
    ELSE (IF Head(es).key = key THEN << Head(es) >> ELSE << >>) \o EntriesOf(Tail(es), key)

\* the bytes of the entries of f that are not marked deleted, in file order
RECURSIVE LiveBytes(_, _)
LiveBytes(f, es) ==
    IF es = << >> THEN << >>
    ELSE LET e == Head(es)
             size == HeaderSize + Len(e.key) + Len(e.value)
         IN  (IF e.deleted = 0 THEN Bytes(f, e.at, size) ELSE << >>) \o LiveBytes(f, Tail(es))

\* C1: every get(k) returns the value of the last insert(k, v) when no
\* erase(k) followed it and empty otherwise, whatever inserts, erases, gets,
\* compaction passes and cache evictions came before.
C1_GetIsPlainMap == last.op = "get" => last.ret = kv[last.key]

\* a get of a key that was evicted from the cache returned its value
C1_Witness == last.op = "get" /\ last.was = TrueV /\ last.ret \in Values

\* C2: erase(k) returns true when k is present at the call and false in
\* every other case.
C2_EraseReturn ==
    last.op = "erase" => last.ret = (IF last.was # nullopt THEN TrueV ELSE FalseV)

\* an erase of a present key returned true
C2_Witness == last.op = "erase" /\ last.was \in Values /\ last.ret = TrueV

\* C7: compressFile leaves the file equal to the entries that were not marked
\* deleted before the call, byte for byte and in their order, and nothing else.
C7_CompressKeepsLive ==
    last.op = "compress" =>
        disk[last.bin] = LiveBytes(last.was, Entries(last.was, 0))

\* a file with a deleted entry before two live ones was compressed
C7_Witness ==
    /\ last.op = "compress"
    /\ LET es == Entries(last.was, 0)
       IN  Len(es) = 3 /\ es[1].deleted = 1 /\ es[2].deleted = 0 /\ es[3].deleted = 0

\* C8: after a compaction of its bin, a key whose last call was an insert with
\* value v2 has exactly one entry in the file; it holds v2 and is not deleted.
C8_OneEntryAfterCompaction ==
    last.op = "compress" =>
        \A k \in Keys :
            (hash(k) = last.bin /\ kv[k] # nullopt) =>
                LET es == EntriesOf(Entries(disk[last.bin], 0), k)
                IN  Len(es) = 1 /\ es[1].value = kv[k] /\ es[1].deleted = 0

\* a key inserted twice since the last compaction went through a compaction
C8_Witness ==
    /\ last.op = "compress"
    /\ \E k \in Keys :
          /\ hash(k) = last.bin
          /\ kv[k] # nullopt
          /\ Len(EntriesOf(Entries(last.was, 0), k)) >= 2

LiveOf(b, key) ==
    LET es == EntriesOf(Entries(disk[b], 0), key)
    IN  { i \in 1 .. Len(es) : es[i].deleted = 0 }

\* C3 as stated: in every reachable state, the states inside insert
\* included, a file holds at most one entry of a key that is not deleted.
C3_OneLivePerKey_Always ==
    \A b \in Bins : \A k \in Keys : Cardinality(LiveOf(b, k)) <= 1

\* C3 as amended: the same in every state in which compressFile is not at
\* work on the file, the states inside insert included.
C3_OneLivePerKey ==
    \A b \in Bins : mutex[b] # "gc" =>
        \A k \in Keys : Cardinality(LiveOf(b, k)) <= 1

\* inside an insert of a present key: its old entry is marked deleted and the
\* new entry is not yet written
C3_Witness ==
    /\ client.pc = "insert_append"
    /\ kv[client.key] # nullopt
    /\ LiveOf(hash(client.key), client.key) = {}

\* C4: while no writer holds the lock of a bin, every key in the bin's cache
\* has the cached value in its live entry on disk, if it has a live entry.
C4_CacheAgreesWithDisk ==
    \A b \in Bins : mutex[b] = "free" =>
        \A k \in DOMAIN cache[b].lruMap :
            LET es == EntriesOf(Entries(disk[b], 0), k)
            IN  \A i \in 1 .. Len(es) :
                    es[i].deleted = 0 => es[i].value = cache[b].lruMap[k].value

\* a cached key whose value was replaced: a deleted and a live entry on disk
C4_Witness ==
    \E b \in Bins : \E k \in DOMAIN cache[b].lruMap :
        /\ mutex[b] = "free"
        /\ LiveOf(b, k) # {}
        /\ Len(EntriesOf(Entries(disk[b], 0), k)) >= 2

\* the keys of the order list
ListKeys(c) == { c.lruList[i].key : i \in 1 .. Len(c.lruList) }

\* C5: the cache never holds more entries than its capacity, and the key
\* index and the order list hold the same keys, each once.
C5_LruBounded ==
    LET c == cache[0]
    IN  /\ Len(c.lruList) <= c.capacity
        /\ ListKeys(c) = DOMAIN c.lruMap
        /\ Cardinality(ListKeys(c)) = Len(c.lruList)
        /\ \A i \in 1 .. Len(c.lruList) : c.lruMap[c.lruList[i].key] = c.lruList[i]

\* a put of a new key into a full cache
C5_Witness ==
    /\ last.op = "lru_put"
    /\ Len(last.was.lruList) = last.was.capacity
    /\ last.key \notin DOMAIN last.was.lruMap
    /\ last.key \in DOMAIN cache[0].lruMap

\* C6: the order list lists the present keys by the time of their last put or
\* successful get, latest first; a get that misses and a remove of an absent
\* key leave the cache as it was.
C6_LruOrder ==
    LET c == cache[0]
    IN  /\ \A i, j \in 1 .. Len(c.lruList) :
              i < j => recency.at[c.lruList[i].key] > recency.at[c.lruList[j].key]
        /\ (last.op \in {"lru_get", "lru_remove"} /\ last.key \notin DOMAIN last.was.lruMap)
              => c = last.was

\* a successful get of the key at the tail moved it to the head
C6_Witness ==
    /\ last.op = "lru_get"
    /\ Len(last.was.lruList) = 2
    /\ last.was.lruList[2].key = last.key
    /\ cache[0].lruList[1].key = last.key

\* the end of the whole entries of f from offset pos
RECURSIVE WholeEnd(_, _)
WholeEnd(f, pos) ==
    IF pos + HeaderSize > Len(f) THEN pos
    ELSE LET key_length == ReadInt(f, pos)
             value_length == ReadInt(f, pos + 4)
             size == HeaderSize + key_length + value_length
         IN  IF key_length < 0 \/ value_length < 0 \/ pos + size > Len(f) THEN pos
             ELSE WholeEnd(f, pos + size)

C11_CreateLeavesEmptyShards ==
    last.op # "none" =>
        /\ store = "up"
        /\ dir = {}
        /\ DOMAIN disk = Bins
        /\ \A b \in DOMAIN disk : disk[b] = << >>
        /\ last.op = "get" => last.ret = nullopt
        /\ last.op = "erase" => last.ret = FalseV

\* C11 for the directories that hold no directory that is not empty
C11_CreateOnFlatDirectory ==
    (last.op # "none" /\ store # "failed") =>
        /\ store = "up"
        /\ dir = {}
        /\ DOMAIN disk = Bins
        /\ \A b \in DOMAIN disk : disk[b] = << >>
        /\ last.op = "get" => last.ret = nullopt
        /\ last.op = "erase" => last.ret = FalseV

\* the constructor met a directory that is not empty and ended by the
\* exception: no store, and a file of the earlier store still holds its bytes
C11_Witness ==
    /\ last.op = "create"
    /\ store = "failed"
    /\ \E b \in DOMAIN disk : disk[b] # << >>


\* C12: a get of a key returns a value the plain map held for the key at some
\* moment between the call and the return, a write in progress counting for
\* the value before it and the value after it: never another value, never a
\* mix of bytes, and the value after the write when the get starts after it.
C12_GetSeesPreOrPost ==
    \A r \in DOMAIN readers :
        readers[r].pc = "done" => readers[r].ret \in readers[r].seen

\* a get that ran beside a write of its key returned
C12_Witness ==
    \E r \in DOMAIN readers :
        /\ readers[r].pc = "done"
        /\ Cardinality(readers[r].seen) = 2
        /\ readers[r].ret \in Values

\* the writer thread is inside insert or erase on bin b
WriterIn(b) ==
    client.pc \in { "insert_scan", "insert_append", "erase_scan" } /\ hash(client.key) = b

\* the collector thread is inside compressFile on bin b
CollectorIn(b) == gc.pc \in { "loop", "resize" } /\ gc.bin = b

\* C13: on every bin, insert or erase and compressFile are never inside at
\* once, and while one of them is inside no get is inside.
C13_LockDiscipline ==
    \A b \in Bins :
        /\ ~(WriterIn(b) /\ CollectorIn(b))
        /\ (WriterIn(b) \/ CollectorIn(b)) => \A r \in DOMAIN readers : ~ReaderHolds(r, b)

\* two gets are inside one bin at once while the writer waits
C13_Witness ==
    /\ \A r \in Readers : readers[r].pc = "scan" /\ hash(readers[r].key) = 0
    /\ kv # [k \in Keys |-> nullopt]


\* a line completed a command, which was executed and answered
Dispatched == last.op = "line" /\ last.was.dispatch /\ last.ret # ErrV

\* C14: a complete command is answered from the store: SET k v (3 parts)
\* inserts and replies "+OK\r\n", after which get(k) is v; GET k (2 parts)
\* replies the current value of k as a bulk string, or "$-1\r\n" when k is
\* absent; DEL k (2 parts) replies ":1\r\n" when k was present and ":0\r\n"
\* otherwise, and k is absent afterwards, so that a repeated DEL replies
\* ":0\r\n".
C14_CommandReplies ==
    Dispatched =>
        LET args == last.was.args
            before == last.was.kv
        IN  /\ (Len(args) = 3 /\ args[1] = SET) =>
                  last.ret = OkReply /\ GetRet(args[2]) = args[3]
            /\ (Len(args) = 2 /\ args[1] = GET) =>
                  last.ret = (IF before[args[2]] = nullopt THEN NilReply
                              ELSE BulkStrings(<< before[args[2]] >>))
            /\ (Len(args) = 2 /\ args[1] = DEL) =>
                  /\ last.ret = (IF before[args[2]] = nullopt THEN ZeroReply ELSE OneReply)
                  /\ GetRet(args[2]) = nullopt

\* a GET is answered with a value that the cache no longer held
C14_Witness ==
    /\ Dispatched
    /\ last.was.args = << GET, << 1 >> >>
    /\ last.ret = BulkStrings(<< << 7 >> >>)
    /\ LRU_get_ret(last.was.cache[0], << 1 >>) = nullopt


\* C15: a complete command whose first part is none of SET, GET and DEL, or
\* that has another number of parts than 3 for SET and 2 for GET and DEL, is
\* answered "-ERR unknown command or wrong number of arguments\r\n", and the
\* files, the caches and the values of the keys are what they were.
C15_UnknownCommand ==
    Dispatched =>
        LET args == last.was.args
        IN  (\/ args[1] \notin { SET, GET, DEL }
             \/ args[1] = SET /\ Len(args) # 3
             \/ args[1] \in { GET, DEL } /\ Len(args) # 2) =>
                /\ last.ret = ErrUnknown
                /\ disk = last.was.disk
                /\ cache = last.was.cache
                /\ kv = last.was.kv

\* a GET with two arguments is refused by a store that holds entries
C15_Witness ==
    /\ Dispatched
    /\ last.was.args = << GET, << 1 >>, << 2 >> >>
    /\ last.ret = ErrUnknown
    /\ disk[0] # << >>


\* the server has read the whole of an empty array sent as the last input
EmptyArrayRead ==
    /\ wire.count > 0
    /\ wire.input = CommandInput(<< >>)
    /\ buffer_ = << >>
    /\ last.op = "line"

\* C16: when the frame "*0\r\n" has been read, the reply is
\* "-ERR empty command\r\n" and the store is what it was.
C16_EmptyArrayAnswered ==
    EmptyArrayRead =>
        /\ last.ret = ErrEmpty
        /\ disk = last.was.disk /\ cache = last.was.cache /\ kv = last.was.kv

\* C16, as the code behaves: the frame "*0\r\n" is read without any reply,
\* and the store is what it was.
C16_EmptyArrayUnanswered ==
    EmptyArrayRead =>
        /\ last.ret = VoidV
        /\ socket_.replies = last.was.replies
        /\ disk = last.was.disk /\ cache = last.was.cache /\ kv = last.was.kv

\* an empty array was the first input; it is read and the client got nothing
C16_Witness ==
    /\ EmptyArrayRead
    /\ wire.count = 1
    /\ session.expected_parts_ = 0
    /\ socket_.sent = << >>


\* a line was processed and no exception ended the process
LineDone == last.op = "line" /\ last.ret # ErrV

\* the bulk strings completed since the last array header, the line just
\* processed included, are as many as the header announced
CountReached == last.was.header # << >> /\ last.was.bulks = last.was.header[1]

\* C17: a line makes the session dispatch a command exactly when the number
\* of bulk strings completed since the last array header equals the number
\* the header announced, never without an array header before, and after a
\* dispatch the session is in its initial state.
C17_DispatchExactlyAtCount ==
    LineDone =>
        /\ last.was.dispatch <=> CountReached
        /\ last.was.dispatch => session = InitialSession /\ wire.header = << >>

\* C17, as the code behaves: a line makes the session dispatch exactly when
\* it completes a bulk string and the count is reached (so a header that
\* announces no part dispatches nothing), and after a dispatch the session
\* is in its initial state.
C17_DispatchAtCompletedBulk ==
    LineDone =>
        /\ last.was.dispatch <=> (last.was.bulk_done /\ CountReached)
        /\ last.was.dispatch => session = InitialSession /\ wire.header = << >>

\* the second command of a connection is dispatched at its third part
C17_Witness ==
    /\ Dispatched
    /\ wire.count = 2
    /\ last.was.header = << 3 >>
    /\ last.was.bulks = 3
    /\ session = InitialSession


\* the server, its files in order, has read the whole of input number n,
\* which is the command args
HasRead(n, args) ==
    /\ wire.count = n
    /\ wire.input = CommandInput(args)
    /\ buffer_ = << >>
    /\ last.op = "line"
    /\ threads = "running"
    /\ faulty = {}

HasLF(v) == \E i \in DOMAIN v : v[i] = 10

\* the wire round trip of the values in vs: SET k v sent first is answered
\* "+OK\r\n" and makes v the value of k, and GET k sent next is answered
\* with v as a bulk string after it
RoundTrip(vs) ==
    \A v \in vs :
        /\ HasRead(1, << SET, << 1 >>, v >>) =>
              socket_.sent = OkReply /\ kv[<< 1 >>] = v
        /\ (HasRead(2, << GET, << 1 >> >>) /\ kv[<< 1 >>] = v) =>
              socket_.sent = OkReply \o BulkStrings(<< v >>)

\* C18: every value, the empty one and those that hold "\r", "\n", "\r\n" or
\* NUL included, makes the wire round trip: the frame SET k v is answered
\* "+OK\r\n" and the frame GET k that follows is answered
\* "$<len(v)>\r\n<v>\r\n".
C18_WireRoundTrip == RoundTrip(WireValues)

\* C18, as the code behaves: the values that hold no "\n" make the wire
\* round trip.
C18_RoundTripWithoutLF == RoundTrip({ v \in WireValues : ~HasLF(v) })

\* the frame SET k "\n" has been read to its end: the session still waits
\* for the end of the value, with more bytes than announced, and the client
\* got nothing
C18_Witness ==
    /\ HasRead(1, << SET, << 1 >>, << 10 >> >>)
    /\ session.reading_bulk_string_
    /\ Len(session.bulk_string_) > session.bulk_string_length_
    /\ socket_.sent = << >>


\* the store call of the command that a line completed ended by an exception
StoreCallFailed == last.op = "line" /\ last.was.dispatch /\ last.ret = ErrV

\* the session has handed a reply that starts with "-ERR" to the socket
\* since the line was taken
ErrReplied ==
    LET n == Len(last.was.replies)
    IN  /\ Len(socket_.replies) >= n + 4
        /\ SubSeq(socket_.replies, n + 1, n + 4) = SubSeq(ErrUnknown, 1, 4)

\* C20: when the store call of a SET, GET or DEL fails, the session replies
\* "-ERR ..." to its client and the server goes on serving.
C20_StoreFailureAnswered == StoreCallFailed => ErrReplied /\ threads = "running"

\* C20, as the code behaves: when the store call of a SET, GET or DEL fails,
\* nothing is replied and the process is terminated.
C20_StoreFailureTerminates ==
    StoreCallFailed => socket_ = [socket_ EXCEPT !.replies = last.was.replies]
                       /\ threads = "terminated"

\* a GET that has to open the file of its bin, which fails, has ended the
\* server without a reply
C20_Witness ==
    /\ StoreCallFailed
    /\ last.was.args = << GET, << 1 >> >>
    /\ threads = "terminated"
    /\ socket_.replies = last.was.replies


\* C19: the replies of a connection reach the client in the order of its
\* commands: no byte of a reply is written before a byte of an earlier
\* reply, whatever thread runs the callbacks.
C19_RepliesInOrder ==
    \A i, j \in DOMAIN socket_.order : i < j => socket_.order[i] <= socket_.order[j]

\* the client has got the whole second reply between two parts of the first
C19_Witness ==
    /\ socket_.writes = 2
    /\ socket_.ops = << >>
    /\ \E i, j \in DOMAIN socket_.order :
          i < j /\ socket_.order[i] = 2 /\ socket_.order[j] = 1
    /\ socket_.order[1] = 1


\* C21: no compressFile call begins after a sleep that ended with the stop
\* flag set: the worker starts no compaction pass once the flag is set.
C21_NoPassAfterStop == last.op = "compress" => ~gc.stopped

\* C21, as the code behaves: the flag is tested before the sleep only, so
\* that at most one sleep ends with the flag set, and the pass after it is
\* the last one.
C21_OnePassAfterStop ==
    /\ gc.late <= 1
    /\ gc.pc = "sleep" => gc.late = 0

\* the destructor set the flag during the sleep, and the worker has called
\* compressFile on a file with a deleted entry after it
C21_Witness ==
    /\ last.op = "compress"
    /\ gc.stopped
    /\ client.pc = "join"
    /\ last.ret # last.was.f


\* C22: the destructor sets the stop flag, waits for the collector thread to
\* end and only then releases the bins: the bins are released only with the
\* flag set and the thread ended, no compressFile call is made on a released
\* bin, and once the flag is set the thread does end.
C22_CleanShutdown ==
    /\ [](store = "down" => stop_gc /\ gc.pc = "exit")
    /\ [](last.op = "compress" => last.was.store = "up")
    /\ (stop_gc ~> gc.pc = "exit")

\* the store is destroyed after the flag was set during a sleep and the last
\* pass compressed a file
C22_Witness ==
    /\ store = "down"
    /\ gc.pc = "exit"
    /\ gc.late = 1
    /\ last.op = "compress"
    /\ last.ret # last.was.f


\* C23: erase(k) of a key that is absent, never inserted or already erased,
\* returns false and leaves the bytes of the files and the caches as they
\* were, so that the second of two erase(k) changes nothing.
C23_EraseAbsent ==
    [][\A k \in Keys :
          (Erase(k) /\ kv[k] = nullopt) =>
              last'.ret = FalseV /\ disk' = disk /\ cache' = cache]_vars

\* an erase has returned false for a key whose entry an earlier erase marked
\* deleted, in a bin whose cache holds another key
C23_Witness ==
    /\ last.op = "erase"
    /\ last.was = nullopt
    /\ last.ret = FalseV
    /\ EntriesOf(Entries(disk[last.bin], 0), last.key) # << >>
    /\ cache[last.bin].lruList # << >>


\* C24: a compressFile run directly after another, with no insert or erase
\* between them, leaves the file as the first left it, byte for byte and of
\* the same length.
C24_CompressTwice ==
    last.op = "compress" =>
        /\ compressFile(last.ret) = last.ret
        /\ Len(compressFile(last.ret)) = Len(last.ret)
        /\ disk[last.bin] = last.ret

\* a compressFile call has removed an entry and left another
C24_Witness ==
    /\ last.op = "compress"
    /\ last.ret # << >>
    /\ Len(last.ret) < Len(last.was)
    /\ disk[last.bin] = last.ret


C26_SessionEndsOnWriteError == last.op = "line" => last.was.errors = 0

\* C26, what holds: every failed write is logged once, and nothing of its
\* reply reaches the client.
C26_WriteErrorLogged ==
    /\ socket_.errors <= socket_.writes
    /\ (socket_.errors > 0 => socket_.closed)
    /\ (socket_.errors > 0 => Len(socket_.sent) < Len(socket_.replies))
    /\ socket_.sent = SubSeq(socket_.replies, 1, Len(socket_.sent))

C26_Witness ==
    /\ last.op = "line"
    /\ last.was.errors = 1
    /\ last.was.dispatch
    /\ last.was.args = << SET, << 1 >>, << 7 >> >>
    /\ kv[<< 1 >>] = << 7 >>
    /\ socket_.errors = 2


\* every thread has returned from its insert
AllReturned == \A w \in Writers : readers[w].pc = "idle"

\* what a get of the key returns once it holds the shared lock, which it
\* is granted when compressFile is not at work on the file
GetReturns(k, v) == mutex[hash(k)] # "gc" => GetValue(k) = v

\* C27 as stated: when all concurrent inserts have returned, get of every
\* inserted key returns the value of the insert that took the lock last, and
\* the file holds exactly one entry of the key that is not deleted.
C27_LastLockWins_Always ==
    AllReturned =>
        \A k \in ConcKeys : last.was.won[k] # VoidV =>
            /\ GetReturns(k, last.was.won[k])
            /\ Cardinality(LiveOf(hash(k), k)) = 1

\* C27 as amended: get returns the value of the insert that took the lock
\* last in every state where the inserts have returned; the file holds
\* exactly one live entry of the key, with that value, whenever
\* compressFile is not at work on it.
C27_LastLockWins ==
    AllReturned =>
        \A k \in ConcKeys : last.was.won[k] # VoidV =>
            /\ GetReturns(k, last.was.won[k])
            /\ (mutex[hash(k)] # "gc" =>
                   /\ GetScan(disk[hash(k)], k, 0) = last.was.won[k]
                   /\ Cardinality(LiveOf(hash(k), k)) = 1)

\* three inserts, two of one key, have returned, a thread took the lock
\* while the other was in its call, and the file holds two entries: a
\* compaction between the inserts has removed the entry marked deleted
C27_Witness ==
    /\ AllReturned
    /\ mutex[0] = "free"
    /\ last.was.met
    /\ last.was.seen = { << << 1 >>, << >> >>, << << 1 >>, << 7 >> >>, << << 2 >>, << 7 >> >> }
    /\ last.was.won[<< 1 >>] = << 7 >>
    /\ Len(Entries(disk[0], 0)) = ConcRecs
    /\ GetValue(<< 1 >>) = << 7 >>


\* C28: when the process stopped inside insert(k, v2) on a key that held v1,
\* get(k) after the store is opened again returns v1 or v2.
C28_OldOrNewAfterStop ==
    [][(Open /\ last.op = "stop" /\ last.was.old # nullopt)
           => GetValue(last.was.key)' \in { last.was.old, last.was.new }]_vars

\* C28, what holds: get(k) returns v1, v2 or nothing, and every other key
\* keeps its value.
C28_NoOtherValueAfterStop ==
    [][(Open /\ last.op = "stop")
           => /\ GetValue(last.was.key)' \in { last.was.old, last.was.new, nullopt }
              /\ \A k \in Keys \ { last.was.key } : GetValue(k)' = last.was.before[k]]_vars

\* the store was opened after a stop between the mark and the append of an
\* insert on a key that held a value: get returns nothing
C28_Witness ==
    /\ last.op = "open"
    /\ store = "up"
    /\ last.was.at = "insert_append"
    /\ last.was.old = << 7 >>
    /\ last.was.new = << >>
    /\ GetValue(last.was.key) = nullopt
    /\ client.pc = "idle"
    /\ kv[last.was.key] = nullopt


\* C29: when the process stopped inside compressFile, after the store is
\* opened again every key that had a live entry returns the same value, and
\* no file holds two live entries of a key.
C29_CompressStopKeepsAll ==
    [][(Open /\ last.op = "stop" /\ last.was.at = "compress")
           => /\ \A k \in Keys : last.was.before[k] # nullopt
                                    => GetValue(k)' = last.was.before[k]
              /\ \A b \in Bins : \A k \in Keys : Cardinality(LiveOf(b, k))' <= 1]_vars

\* C29, what holds: after a stop between two turns of the loop, when no
\* entry is written in part, no key returns a value it did not have.
C29_CompressStopNoOtherValue ==
    [][(Open /\ last.op = "stop" /\ last.was.at = "compress" /\ last.was.n = 0)
           => \A k \in Keys : GetValue(k)' \in { last.was.before[k], nullopt }]_vars

\* the store was opened after a stop inside compressFile between two turns
\* of its loop, and a key that had a value has none
C29_Witness ==
    /\ last.op = "open"
    /\ store = "up"
    /\ last.was.at = "compress"
    /\ last.was.n = 0
    /\ client.pc = "idle"
    /\ gc.pc = "call"
    /\ \E k \in Keys : last.was.before[k] # nullopt /\ kv[k] = nullopt
                       /\ GetValue(k) = nullopt


\* an insert has ended by an exception
InsertFailed == last.op = "insert" /\ last.ret = ErrV

\* C30: an insert that fails leaves the cache and the file as they were, and
\* get of its key returns what it returned before the call.
C30_FailedInsertLeavesNothing ==
    InsertFailed =>
        /\ cache = last.was.cache
        /\ disk = last.was.disk
        /\ GetValue(last.key) = last.was.get

\* C30, what holds: the failure is signalled and the file is as before; the
\* cache holds the value of the failed call.
C30_FailedInsertLeavesFile ==
    InsertFailed =>
        /\ disk = last.was.disk
        /\ cache = [last.was.cache EXCEPT ![last.bin] = LRU_put(@, last.key, last.was.value)]
        /\ GetValue(last.key) = last.was.value

\* an insert on a key that holds a value has failed, and get returns
\* another value than before
C30_Witness ==
    /\ InsertFailed
    /\ last.was.get = << 7 >>
    /\ GetValue(last.key) = << >>
    /\ disk = last.was.disk
    /\ GetScan(disk[last.bin], last.key, 0) = << 7 >>


\* C31: a turn of binCheck accepts an entry exactly when its header is
\* completely in the file, both lengths are not negative and the offset of
\* the header plus 9 plus both lengths is at most the size of the file, for
\* all values of the lengths, those whose sum is beyond INT_MAX included.
C31_AcceptsIffFits ==
    last.op = "turn" =>
        LET w == last.was
            end == WAdd(WAdd(WAdd(w.pos, WideOf(HeaderSize)), w.key_length), w.value_length)
        IN  (last.ret = TrueV) <=>
               /\ ~WNegative(w.pos)
               /\ ~WLess(w.size, WAdd(w.pos, WideOf(HeaderSize)))
               /\ ~WNegative(w.key_length)
               /\ ~WNegative(w.value_length)
               /\ ~WLess(w.size, end)

\* an entry whose lengths are INT_MAX and INT_MAX - 7 is rejected in a file
\* of a few bytes, although the sum of the lengths in type int is -9
C31_Witness ==
    /\ last.op = "turn"
    /\ last.ret = FalseV
    /\ last.was.complete
    /\ last.was.key_length = << 2 ^ 15 - 1, W16 - 1 >>
    /\ last.was.value_length = << 2 ^ 15 - 1, W16 - 8 >>
    /\ last.was.size = WideOf(HeaderSize)
    /\ client.pc = "done"
    /\ client.size = WideOf(0)


\* C32: every entry that binCheck accepts moves the scan strictly forward,
\* so the scan ends on every file.
C32_ScanMovesForward == client.pc = "scan" => WLess(client.prev, client.pos)

\* C32, what holds: the scan moves strictly forward, and never beyond the
\* end of the file, as long as no sum of two accepted lengths is beyond
\* INT_MAX, which takes a file of 2 GiB or more.
C32_ScanMovesForwardInInt ==
    (client.pc = "scan" /\ ~client.undefined) =>
        /\ WLess(client.prev, client.pos)
        /\ ~WLess(client.size, client.pos)
        /\ ~client.failed

\* a file of 4 GiB starts with an entry whose lengths are INT_MAX and
\* INT_MAX - 7: the entry was accepted and the scan is at offset 0 again
C32_Witness ==
    /\ client.pc = "scan"
    /\ client.undefined
    /\ client.size = << W16, 0 >>
    /\ client.pos = WideOf(0)
    /\ client.prev = WideOf(0)
    /\ last.op = "turn"
    /\ last.ret = TrueV
    /\ ENABLED ScanAccept


\* C33, what holds: on the files of a few entries, binCheck cuts the file at
\* the offset of the header of the first entry it rejects: what is left is
\* the longest prefix of whole entries, byte for byte as before, deleted
\* flags included, and a file of whole entries only keeps its length and
\* content.
C33_CutAtFirstRejected ==
    last.op = "binCheck" =>
        LET cut == WholeEnd(last.was, 0)
        IN  /\ Len(disk[0]) = cut
            /\ \A i \in 1 .. cut : disk[0][i] = last.was[i]
            /\ Len(Entries(disk[0], 0)) = Len(Entries(last.was, 0))
            /\ \A i \in 1 .. Len(Entries(disk[0], 0)) :
                  Entries(disk[0], 0)[i] = Entries(last.was, 0)[i]
            /\ (cut = Len(last.was) => disk[0] = last.was)

\* the remainder of a by n
WMod(a, n) == (a[1] * (W16 % n) + a[2]) % n

\* the offset of the header of the first entry to reject in the file
\* (head, size): 0 when the entry at the start is rejected, and otherwise
\* the end of the last of the empty entries that follow it
FirstRejected(head, size) ==
    LET t == CheckTurn(head, size, WideOf(0), FALSE)
        end == Footprint(WideOf(HeaderSize), t.key_length, t.value_length)
        left == WAdd(size, << -end[1], -end[2] >>)
    IN  IF t.accepted THEN WAdd(size, WideOf(-WMod(left, HeaderSize))) ELSE WideOf(0)

\* C33: binCheck cuts the file at the offset of the header of the first
\* entry it rejects, whatever the size of the file, and a file of whole
\* entries only keeps its length.
C33_CutAtFirstRejectedAnySize ==
    client.pc = "done" =>
        /\ ~client.threw
        /\ client.size = FirstRejected(client.head, last.was.size)

\* a file of 4 GiB + 7 bytes that is one whole entry, with lengths INT_MAX
\* and INT_MAX, has lost its last bytes
C33_Witness ==
    /\ client.pc = "done"
    /\ ~client.threw
    /\ last.was.size = << W16, 7 >>
    /\ FirstRejected(client.head, last.was.size) = last.was.size
    /\ WLess(client.size, last.was.size)


\* C34: inside compressFile write_pos <= read_pos at every step; read_pos is
\* at the start of an entry of the original file (all bytes from read_pos on
\* are as they were, whole entries up to the end), write_pos at the end of
\* the entries written back; a turn of the loop changes no byte at or behind
\* the new read_pos, so no byte that is still to read is overwritten.
C34_CompressPositions ==
    /\ [](gc.pc \in { "loop", "resize" } =>
             LET f == disk[gc.bin]
             IN  /\ 0 <= gc.write_pos
                 /\ gc.write_pos <= gc.read_pos
                 /\ gc.read_pos <= Len(f)
                 /\ WholeEnd(f, gc.read_pos) = Len(f)
                 /\ WholeEnd(SubSeq(f, 1, gc.write_pos), 0) = gc.write_pos
                 /\ \A i \in 1 .. Len(Entries(SubSeq(f, 1, gc.write_pos), 0)) :
                       Entries(SubSeq(f, 1, gc.write_pos), 0)[i].deleted = 0)
    /\ [][CompressIter =>
             /\ Len(disk'[gc.bin]) = Len(disk[gc.bin])
             /\ gc.read_pos <= gc'.read_pos
             /\ gc.write_pos <= gc'.write_pos
             /\ \A i \in (gc'.read_pos + 1) .. Len(disk[gc.bin]) :
                   disk'[gc.bin][i] = disk[gc.bin][i]]_vars

\* in the loop of compressFile, a deleted entry was skipped, a live entry
\* was written back into its place, and another entry is still to read
C34_Witness ==
    /\ gc.pc = "loop"
    /\ 0 < gc.write_pos
    /\ gc.write_pos < gc.read_pos
    /\ gc.read_pos < Len(disk[gc.bin])
    /\ Len(Entries(disk[gc.bin], gc.read_pos)) = 1
    /\ Entries(disk[gc.bin], gc.read_pos)[1].deleted = 0


\* C35: a compressFile call leaves the cache of every bin as it is, entries
\* and order, and changes what get returns for no key, whether the key is
\* in the cache or read from the file.
C35_CompressKeepsGet ==
    [][Compress =>
          /\ cache' = cache
          /\ \A k \in Keys :
                /\ GetValue(k)' = GetValue(k)
                /\ GetScan(disk'[hash(k)], k, 0) = GetScan(disk[hash(k)], k, 0)
                /\ (k \in DOMAIN cache[hash(k)].lruMap /\ GetScan(disk[hash(k)], k, 0) # nullopt
                       => LRU_get_ret(cache'[hash(k)], k) = GetScan(disk'[hash(k)], k, 0))]_vars

\* a compressFile call has shortened a file that holds the value of a key
\* in the cache and the value of a key that is not in the cache
C35_Witness ==
    /\ last.op = "compress"
    /\ Len(disk[last.bin]) < Len(last.was)
    /\ \E k1, k2 \in Keys :
          /\ hash(k1) = last.bin /\ hash(k2) = last.bin
          /\ k1 \in DOMAIN cache[last.bin].lruMap
          /\ k2 \notin DOMAIN cache[last.bin].lruMap
          /\ GetScan(disk[last.bin], k1, 0) # nullopt
          /\ GetScan(disk[last.bin], k2, 0) # nullopt

\* C36: a put of a key that is absent while the cache holds capacity entries
\* evicts exactly the element at the back of the order list, from the list
\* and from the index, and with a capacity of one or more the key just put
\* stays; a put of a key that is present, a get and a remove drop no other key.
C36_EvictsTail ==
    LET c == cache[0]
        was == last.was
        n == Len(was.lruList)
        absent == last.key \notin DOMAIN was.lruMap
    IN  /\ (last.op = "lru_put" /\ absent /\ n = was.capacity /\ n >= 1) =>
              /\ DOMAIN c.lruMap = (DOMAIN was.lruMap \ { was.lruList[n].key }) \cup { last.key }
              /\ Len(c.lruList) = n
              /\ c.lruList[1].key = last.key
              /\ Tail(c.lruList) = SubSeq(was.lruList, 1, n - 1)
              /\ \A k \in DOMAIN was.lruMap \ { was.lruList[n].key } : c.lruMap[k] = was.lruMap[k]
        /\ (last.op = "lru_put" /\ absent /\ n = was.capacity /\ n = 0) =>
              /\ c.lruList = << >>
              /\ DOMAIN c.lruMap = {}
        /\ (last.op = "lru_put" /\ ~absent) =>
              /\ DOMAIN c.lruMap = DOMAIN was.lruMap
              /\ ListKeys(c) = ListKeys(was)
        /\ last.op = "lru_get" =>
              /\ c.lruMap = was.lruMap
              /\ ListKeys(c) = ListKeys(was)
        /\ last.op = "lru_remove" =>
              /\ DOMAIN c.lruMap = DOMAIN was.lruMap \ { last.key }
              /\ ListKeys(c) = ListKeys(was) \ { last.key }
              /\ \A k \in DOMAIN c.lruMap : c.lruMap[k] = was.lruMap[k]

\* a put into a full cache of two entries has evicted the older one
C36_Witness ==
    /\ last.op = "lru_put"
    /\ last.key \notin DOMAIN last.was.lruMap
    /\ last.was.capacity = 2
    /\ Len(last.was.lruList) = 2
    /\ Len(cache[0].lruList) = 2
    /\ last.was.lruList[2].key \notin DOMAIN cache[0].lruMap

\* C37: every insert, get and erase of a key works on the bin hash(key) mod
\* num_bins, which is one of 0 .. num_bins - 1 and the same at the next call
\* with the same key; the files and the caches of the other bins stay as they
\* are.
C37_OnlyOwnBin ==
    /\ [][\A key \in Keys :
            ((\E value \in Values : Insert(key, value)) \/ Get(key) \/ Erase(key)) =>
                LET b == StdHash(key) % num_bins
                IN  /\ b \in 0 .. (num_bins - 1)
                    /\ last'.key = key
                    /\ last'.bin = b
                    /\ (last.op \in {"insert", "get", "erase"} /\ last.key = key)
                          => last.bin = b
                    /\ DOMAIN disk' = DOMAIN disk
                    /\ DOMAIN cache' = DOMAIN cache
                    /\ \A other \in DOMAIN disk \ {b} : disk'[other] = disk[other]
                    /\ \A other \in DOMAIN cache \ {b} : cache'[other] = cache[other]
                    /\ \A other \in DOMAIN mutex \ {b} : mutex'[other] = mutex[other]]_vars
    /\ [](DOMAIN disk = 0 .. (num_bins - 1) /\ DOMAIN cache = 0 .. (num_bins - 1))

\* an insert into bin 1 changed its file and its cache while bin 0 holds a
\* file and a cache of its own
C37_Witness ==
    /\ num_bins = 2
    /\ last.op = "insert"
    /\ last.bin = 1
    /\ disk[1] # << >>
    /\ disk[0] # << >>
    /\ cache[0].lruList # << >>
    /\ last.key \in DOMAIN cache[1].lruMap

\* C38: a pass of the collector calls compressFile for the bins in the order
\* 0 .. num_bins - 1; a call that fails with an I/O error is written to the
\* log, the bins after it are still called in the same pass, and the thread
\* goes back to the test of its loop, which it leaves only when stop_gc is set.
C38_PassGoesOn ==
    /\ last.op = "compress" =>
          /\ Len(last.was) = last.bin + 1
          /\ \A i \in 1 .. Len(last.was) :
                last.was[i].bin = i - 1 /\ last.was[i].ret \in { VoidV, ErrV }
          /\ last.ret = last.was[Len(last.was)].ret
    /\ (gc.pc \in { "call", "open", "loop", "resize" } /\ gc.bin > 0) =>
          last.op = "compress" /\ last.bin = gc.bin - 1
    /\ (gc.pc \in { "test", "sleep", "exit" } /\ last.op = "compress") =>
          Len(last.was) = num_bins
    /\ gc.bin \in 0 .. (num_bins - 1)
    /\ gc.pc = "exit" => stop_gc

\* the call for bin 0 failed, bins 1 and 2 were compacted in the same pass,
\* and the next pass has begun
C38_Witness ==
    /\ last.op = "compress"
    /\ Len(last.was) = 3
    /\ last.was[1].ret = ErrV
    /\ last.was[2].ret = VoidV
    /\ last.was[3].ret = VoidV
    /\ ~stop_gc
    /\ gc.pc = "open"
    /\ gc.bin = 0

\* C39: the collector holds the exclusive lock of at most one bin, that of
\* the bin whose compressFile call it is in; between two calls, after a call
\* that returned as after one that failed, and as it sleeps it holds none.
\* A holder of a lock can always take its next step, and a call of the client
\* for a bin the collector is not in does not wait for the collector.
C39_OneLockAtATime ==
    LET held == { b \in DOMAIN mutex : mutex[b] = "gc" }
        inCall == gc.pc \in { "open", "loop", "resize" }
    IN  /\ Cardinality(held) <= 1
        /\ held = IF inCall THEN { gc.bin } ELSE {}
        /\ gc.pc = "open" => ENABLED (PassOpen \/ \E e \in IoErrors : PassOpenFails(e))
        /\ gc.pc = "loop" => ENABLED CompressIter
        /\ gc.pc = "resize" => ENABLED PassResize
        /\ \A b \in DOMAIN mutex : mutex[b] = "client" =>
              /\ b # gc.bin \/ ~inCall
              /\ ENABLED (InsertMark \/ InsertAppend)
        /\ (store = "up" /\ client.pc = "idle") =>
              \A key \in ConcKeys : (hash(key) # gc.bin \/ ~inCall) => CanCall(hash(key))

\* the call for bin 0 has failed and the collector is in the call for bin 2,
\* holding its lock, while the client is in an insert into bin 0
C39_Witness ==
    /\ gc.pc = "loop"
    /\ gc.bin = 2
    /\ mutex[2] = "gc"
    /\ mutex[0] = "client"
    /\ client.pc = "insert_append"
    /\ last.op = "compress"
    /\ last.was[1].ret = ErrV

\* the cache of bin b is within its capacity, its map and its list hold the
\* same elements, and every cached value is the value of the key's live
\* entry in the file
Coherent(b) ==
    LET c == cache[b]
    IN  /\ Len(c.lruList) <= c.capacity
        /\ ListKeys(c) = DOMAIN c.lruMap
        /\ Cardinality(ListKeys(c)) = Len(c.lruList)
        /\ \A i \in 1 .. Len(c.lruList) : c.lruMap[c.lruList[i].key] = c.lruList[i]
        /\ \A k \in DOMAIN c.lruMap : c.lruMap[k].value = GetScan(disk[b], k, 0)

\* C40: no step of a get changes a file; a get changes the cache only while
\* it holds the shared lock, and a get that finds its key in the file puts
\* the key with the value of its live entry into the cache.  With any gets
\* inside a bin, and whenever no writer is, the cache of the bin is coherent.
C40_GetLeavesFile ==
    /\ [][\A r \in Readers :
            ((\E key \in ConcKeys : ReadCall(r, key)) \/ ReadLock(r) \/ ReadCache(r)
                \/ ReadEntry(r)) =>
                  /\ disk' = disk
                  /\ cache' # cache =>
                        /\ ReaderHolds(r, hash(readers[r].key))
                        /\ mutex[hash(readers[r].key)] = "free"
                  /\ (readers[r].pc = "scan" /\ readers'[r].pc = "done") =>
                        LET key == readers[r].key
                            b == hash(key)
                            found == GetScan(disk[b], key, 0)
                        IN  /\ readers'[r].ret = found
                            /\ cache' = IF found = nullopt THEN cache
                                        ELSE [cache EXCEPT ![b] = LRU_put(cache[b], key, found)]]_vars
    /\ [](\A b \in Bins : mutex[b] = "free" => Coherent(b))

\* a get has put its key into the cache of one entry, and a second get, of
\* another key that has a live entry in the file, is in its scan of the file
C40_Witness ==
    /\ readers[1].pc = "done"
    /\ readers[1].ret \in Values
    /\ readers[2].pc = "scan"
    /\ GetScan(disk[0], readers[2].key, 0) \in Values
    /\ mutex[0] = "free"
    /\ DOMAIN cache[0].lruMap # {}
    /\ readers[2].key \notin DOMAIN cache[0].lruMap

====
